---- MODULE Spec2Model ----
(***************************************************************************)
(* apt-pac: the AUR dependency resolver (src/src/apt_pac/aur.py,           *)
(* class AurResolver) as a state machine.                                  *)
(*                                                                         *)
(* A package name and a dependency specifier are sequences of characters   *)
(* (one-character strings), so that stripping a version constraint is      *)
(* computed the way the code computes it.  A Python list is a sequence, a  *)
(* Python set a set, a Python dict a function whose DOMAIN is its key set. *)
(* A dict key that may be absent (PackageBase) is a sequence of length 0   *)
(* (absent) or 1 (present).                                                *)
(***************************************************************************)
EXTENDS Integers, Sequences, FiniteSets, TLC

VARIABLES
    installed,       \* Metadata Source: the names alpm reports installed
    official,        \* Metadata Source: the names satisfiable from official repos
    aur_db,          \* Metadata Source: name -> the AUR RPC "info" results for it
    packages,        \* the argument of resolve()
    visiting,        \* AurResolver.visiting
    visited,         \* AurResolver.visited
    queue,           \* AurResolver.queue
    aur_info_cache,  \* AurResolver.aur_info_cache
    official_deps,   \* AurResolver.official_deps
    package_bases,   \* AurResolver.package_bases
    base_to_info,    \* AurResolver.base_to_info
    pc,              \* "idle", "resolving", "returned", "raised", "exited"
    req_i,           \* resolve(): index of the next element of packages
    stack,           \* the active _visit calls, outermost first
    cycle,           \* CyclicDependencyError.cycle of the raised error
    exit_status,     \* the status of sys.exit, -1 while the process runs
    rpc_calls,       \* the names get_aur_info was asked for, in call order
    ipc,             \* AurInstaller.install: its position ("idle": not called)
    build_queue,     \* install(): build_queue
    install_official_deps,  \* install(): official_deps
    queue_deps,      \* install(): queue_deps, pkg_name -> set of cleaned deps
    build_i,         \* install(): i, the index of the entry being built
    needed_by_future,  \* install(): needed_by_future of entry i
    built_files,     \* install(): built_files of entry i
    final_batch_paths,  \* install(): final_batch_paths
    final_batch_names,  \* install(): final_batch_names
    cmds,            \* the external commands run so far, in order
    upc,             \* execute_command, upgrade: its position ("idle": not called)
    run_official,    \* upgrade: run_official
    run_aur,         \* upgrade: run_aur
    aur_candidates,  \* upgrade: aur_candidates
    aur_build_queue, \* upgrade: aur_build_queue
    official_deps_for_aur,  \* upgrade: official_deps_for_aur
    call_kind,       \* "first", or how the second resolve() was called
    prev_packages,   \* the argument of the first resolve() call
    prev_pc,         \* how the first resolve() call ended
    prev_queue,      \* the queue after the first resolve() call
    prev_official_deps,  \* official_deps after the first resolve() call
    strip_in,        \* a dependency specifier
    strip_done,      \* which of the two cleaning loops have processed it
    strip_visit,     \* the name AurResolver._visit computes for it
    strip_queue,     \* the name AurInstaller.install computes for it
    cpc,             \* execute_command, install: its position ("idle": not called)
    extra_args,      \* install: extra_args, after the global flags are removed
    valid_packages,  \* the paths aur.is_valid_package accepts
    arg_i,           \* install: index of the next element of extra_args
    official_pkgs,   \* install: official_pkgs
    aur_pkgs,        \* install: aur_pkgs
    pacman_cmd,      \* install: the pacman operation of pacman_cmd ("": none)
    rpc_cache,       \* the RPC cache file: key -> [timestamp, data]
    clock,           \* time.time(), in seconds
    rpc_cache_ttl,   \* config performance.rpc_cache_ttl, in minutes
    spc,             \* search_aur: its position ("idle": not called)
    search_query,    \* search_aur: query of the current call
    search_result,   \* search_aur: what the last call returned
    requests,        \* the queries sent to the AUR RPC, in order
    cache_at_call,   \* the RPC cache when the current search_aur call began
    time_at_call,    \* time.time() when the current search_aur call began
    requests_at_call,  \* len(requests) when the current search_aur call began
    uid,             \* os.getuid()
    sudo_user,       \* os.environ.get("SUDO_USER"): <<>> unset, else <<name>>
    build_user,      \* config tools.build_user
    privilege_tool,  \* config tools.privilege_tool
    which,           \* the tools shutil.which finds
    bpc,             \* _build_pkg: its position ("idle": not called)
    run_cmd          \* _build_pkg: the argv of the makepkg subprocess.run

src_vars == <<installed, official, aur_db, packages>>
res_vars == <<visiting, visited, queue, aur_info_cache, official_deps,
              package_bases, base_to_info>>
ctl_vars == <<pc, req_i, stack, cycle, exit_status, rpc_calls>>
inst_vars == <<ipc, build_queue, install_official_deps, queue_deps, build_i,
               needed_by_future, built_files, final_batch_paths,
               final_batch_names, cmds>>
upg_vars == <<upc, run_official, run_aur, aur_candidates, aur_build_queue,
              official_deps_for_aur>>
again_vars == <<call_kind, prev_packages, prev_pc, prev_queue,
                prev_official_deps>>
strip_vars == <<strip_in, strip_done, strip_visit, strip_queue>>
cmd_vars == <<cpc, extra_args, valid_packages, arg_i, official_pkgs, aur_pkgs,
              pacman_cmd>>
cache_vars == <<rpc_cache, clock, rpc_cache_ttl, spc, search_query,
                search_result, requests, cache_at_call, time_at_call,
                requests_at_call>>
priv_vars == <<uid, sudo_user, build_user, privilege_tool, which, bpc, run_cmd>>
more_vars == <<cmd_vars, cache_vars, priv_vars>>
ext_vars == <<inst_vars, upg_vars, again_vars, strip_vars, more_vars>>
vars == <<src_vars, res_vars, ctl_vars, ext_vars>>

----------------------------------------------------------------------------
(* Bounds of the model *)

\* The weighted size of a Metadata Source plus request (see the section on
\* the Metadata Sources of the model) under Spec.
MaxSize == 4

\* The size of a Metadata Source plus request under SpecWide, whose sources
\* declare only Depends entries without version constraints.
MaxWideSize == 5

\* The package names of the model, in the order of their first mention.
NameList == << <<"a">>, <<"b">>, <<"c">>, <<"d">> >>

NumNames == Len(NameList)

PkgNames == {NameList[i] : i \in 1..NumNames}

\* The version constraints a dependency specifier may carry.
VersionSuffixes == { <<">", "=", "1">> }

Min(x, y) == IF x < y THEN x ELSE y

Max(x, y) == IF x > y THEN x ELSE y

----------------------------------------------------------------------------
(* Python helpers *)

\* s.split(ch)[0]: the part of s before the first ch, all of s without one.
RECURSIVE SplitFirst(_, _)
SplitFirst(s, ch) ==
    IF s = <<>> \/ Head(s) = ch THEN <<>>
    ELSE <<Head(s)>> \o SplitFirst(Tail(s), ch)

Whitespace == {" ", "\t", "\n", "\r"}

RECURSIVE LStrip(_)
LStrip(s) ==
    IF s # <<>> /\ Head(s) \in Whitespace THEN LStrip(Tail(s)) ELSE s

RECURSIVE RStrip(_)
RStrip(s) ==
    IF s # <<>> /\ s[Len(s)] \in Whitespace
    THEN RStrip(SubSeq(s, 1, Len(s) - 1)) ELSE s

\* s.strip()
Strip(s) == RStrip(LStrip(s))

\* CleanName without the split at '<'.
CleanNameNoLess(d) == Strip(SplitFirst(SplitFirst(d, ">"), "="))

\* d.split('>')[0].split('<')[0].split('=')[0].strip()
CleanName(d) == Strip(SplitFirst(SplitFirst(SplitFirst(d, ">"), "<"), "="))

\* [CleanName(d) for d in deps]
CleanAll(deps) == [k \in 1..Len(deps) |-> CleanName(deps[k])]

\* dict.get(key, default) on an optional field
Get(opt, default) == IF opt = <<>> THEN default ELSE opt[1]

\* the elements of a list
Range(s) == {s[k] : k \in 1..Len(s)}

\* d[k] = v on a dict
DictSet(d, k, v) == (k :> v) @@ d

EmptyDict == <<>>

----------------------------------------------------------------------------
(* Package metadata *)

\* AllDeps with the MakeDepends in front.
AllDepsMakeFirst(pkg_info) ==
    pkg_info.MakeDepends \o pkg_info.Depends \o pkg_info.CheckDepends

\* pkg_info.get('Depends', []) + pkg_info.get('MakeDepends', [])
\*     + pkg_info.get('CheckDepends', [])
AllDeps(pkg_info) ==
    pkg_info.Depends \o pkg_info.MakeDepends \o pkg_info.CheckDepends

\* p.get('PackageBase', p['Name'])
BaseOf(p) == Get(p.PackageBase, p.Name)

\* [p.get('PackageBase', p['Name']) for p in self.queue]
QueueBases(q) == {BaseOf(q[k]) : k \in 1..Len(q)}

\* An AUR package without dependencies and without a PackageBase key.
PlainInfo(n) ==
    [Name |-> n, PackageBase |-> <<>>, Depends |-> <<>>,
     MakeDepends |-> <<>>, CheckDepends |-> <<>>]

----------------------------------------------------------------------------
(* The Metadata Source *)

is_installed(package) == package \in installed

is_in_official_repos(package) == package \in official

\* The results of the RPC for the names that exist, in request order.
RECURSIVE get_aur_info(_)
get_aur_info(package_names) ==
    IF package_names = <<>> THEN <<>>
    ELSE aur_db[Head(package_names)] \o get_aur_info(Tail(package_names))

----------------------------------------------------------------------------
(* The Metadata Sources and requests of the model                          *)
(*                                                                         *)
(* Every source over NameList whose weighted size is at most MaxSize, up   *)
(* to renaming: names are mentioned for the first time in the order of     *)
(* NameList (reading the request, then each package's record), and a name  *)
(* nothing mentions before its own record is a plain AUR package.  The     *)
(* size counts 1 for each requested name after the first, each installed   *)
(* flag, each official flag, each name missing from the AUR, each          *)
(* PackageBase key, each Depends entry and each version constraint, and 2  *)
(* for each MakeDepends or CheckDepends entry.                             *)

\* The field of a dependency: 1 Depends, 2 MakeDepends, 3 CheckDepends.
\* The specifiers that may come next when m names are mentioned and the
\* lists are filled up to field f.  A plain source has only Depends entries
\* without version constraints.
NextSpecs(m, f, plain) ==
    {[spec |-> NameList[t] \o v, t |-> t, f |-> g,
      cost |-> (IF g = 1 THEN 1 ELSE 2) + (IF v = <<>> THEN 0 ELSE 1)] :
        t \in 1..Min(m + 1, NumNames),
        v \in {<<>>} \cup (IF plain THEN {} ELSE VersionSuffixes),
        g \in f..(IF plain THEN 1 ELSE 3)}

\* The three dependency lists of cost at most b, filled from field f on,
\* with the names then mentioned.
RECURSIVE GenDeps(_, _, _, _)
GenDeps(m, b, f, plain) ==
    {[deps |-> << <<>>, <<>>, <<>> >>, m |-> m, cost |-> 0]} \cup
    UNION {{[deps |-> [r.deps EXCEPT ![d.f] = <<d.spec>> \o @], m |-> r.m,
             cost |-> d.cost + r.cost] :
                r \in GenDeps(Max(m, d.t), b - d.cost, d.f, plain)} :
           d \in {x \in NextSpecs(m, f, plain) : x.cost <= b}}

\* The PackageBase keys: absent, or one of the names.
GenBases(m) ==
    {[base |-> <<>>, m |-> m, cost |-> 0]} \cup
    {[base |-> <<NameList[t]>>, m |-> Max(m, t), cost |-> 1] :
        t \in 1..Min(m + 1, NumNames)}

\* The RPC results for name i (none: the name is missing from the AUR).
GenInfo(i, m, b, plain) ==
    {[info |-> <<>>, m |-> m, cost |-> 1]} \cup
    UNION {{[info |-> <<[Name |-> NameList[i], PackageBase |-> pb.base,
                         Depends |-> dp.deps[1], MakeDepends |-> dp.deps[2],
                         CheckDepends |-> dp.deps[3]]>>,
             m |-> dp.m, cost |-> pb.cost + dp.cost] :
                dp \in GenDeps(pb.m, b - pb.cost, 1, plain)} :
           pb \in {x \in GenBases(m) : x.cost <= b}}

\* The record of name i: its flags and its RPC results.
GenPkg(i, m, b, plain) ==
    IF i > m
    THEN {[inst |-> FALSE, off |-> FALSE, info |-> <<PlainInfo(NameList[i])>>,
           m |-> m, cost |-> 0]}
    ELSE UNION {UNION {
        {[inst |-> fi, off |-> fo, info |-> g.info, m |-> g.m,
          cost |-> g.cost + (IF fi THEN 1 ELSE 0) + (IF fo THEN 1 ELSE 0)] :
            g \in {x \in GenInfo(i, m, b, plain) :
                     x.cost + (IF fi THEN 1 ELSE 0) + (IF fo THEN 1 ELSE 0) <= b}} :
            fo \in BOOLEAN} : fi \in BOOLEAN}

\* The requests: non-empty lists of names, the first one NameList[1].
RECURSIVE GenRequests(_, _)
GenRequests(m, b) ==
    {[req |-> <<>>, m |-> m, cost |-> 0]} \cup
    (IF b = 0 THEN {}
     ELSE UNION {{[req |-> <<NameList[t]>> \o r.req, m |-> r.m,
                   cost |-> 1 + r.cost] :
                      r \in GenRequests(Max(m, t), b - 1)} :
                 t \in 1..Min(m + 1, NumNames)})

Requests(size) == {x \in GenRequests(0, size + 1) : x.req # <<>>}

\* The records of the names after those of ps, within the budget b.
RECURSIVE InitSource(_, _, _, _)
InitSource(ps, m, b, plain) ==
    IF Len(ps) = NumNames
    THEN /\ installed = {NameList[k] : k \in {j \in 1..NumNames : ps[j].inst}}
         /\ official = {NameList[k] : k \in {j \in 1..NumNames : ps[j].off}}
         /\ aur_db = [n \in PkgNames |->
                         ps[CHOOSE k \in 1..NumNames : NameList[k] = n].info]
    ELSE \E p \in GenPkg(Len(ps) + 1, m, b, plain) :
            InitSource(Append(ps, p), p.m, b - p.cost, plain)

----------------------------------------------------------------------------
(* AurResolver.__init__, with a Metadata Source and a request *)

\* The request and the source: of size at most `size`.
InitRequest(size, plain) ==
    \E r \in Requests(size) :
        /\ packages = r.req
        /\ InitSource(<<>>, r.m, size + 1 - r.cost, plain)

\* AurResolver.__init__: the new resolver, before resolve() is called.
InitResolver ==
    /\ visiting = {}
    /\ visited = {}
    /\ queue = <<>>
    /\ aur_info_cache = EmptyDict
    /\ official_deps = {}
    /\ package_bases = EmptyDict
    /\ base_to_info = EmptyDict
    /\ pc = "idle"
    /\ req_i = 1
    /\ stack = <<>>
    /\ cycle = <<>>
    /\ exit_status = -1
    /\ rpc_calls = <<>>

\* AurInstaller.install is not called yet.
InitInstaller ==
    /\ ipc = "idle"
    /\ build_queue = <<>>
    /\ install_official_deps = {}
    /\ queue_deps = EmptyDict
    /\ build_i = 0
    /\ needed_by_future = FALSE
    /\ built_files = <<>>
    /\ final_batch_paths = <<>>
    /\ final_batch_names = <<>>
    /\ cmds = <<>>

\* The upgrade command is not called yet.
InitUpgradeCommand ==
    /\ upc = "idle"
    /\ run_official = FALSE
    /\ run_aur = FALSE
    /\ aur_candidates = <<>>
    /\ aur_build_queue = <<>>
    /\ official_deps_for_aur = {}

\* No resolve() call has ended yet.
InitCalls ==
    /\ call_kind = "first"
    /\ prev_packages = <<>>
    /\ prev_pc = "idle"
    /\ prev_queue = <<>>
    /\ prev_official_deps = {}

\* No dependency specifier is being cleaned on its own.
InitNoSpecifier ==
    /\ strip_in = <<>>
    /\ strip_done = {}
    /\ strip_visit = <<>>
    /\ strip_queue = <<>>

\* The install command is not called yet.
InitNoCommand ==
    /\ cpc = "idle"
    /\ extra_args = <<>>
    /\ valid_packages = {}
    /\ arg_i = 1
    /\ official_pkgs = <<>>
    /\ aur_pkgs = <<>>
    /\ pacman_cmd = ""

\* search_aur is not called yet: no cache file.
InitNoSearch ==
    /\ rpc_cache = EmptyDict
    /\ clock = 0
    /\ rpc_cache_ttl = 30
    /\ spc = "idle"
    /\ search_query = <<>>
    /\ search_result = <<>>
    /\ requests = <<>>
    /\ cache_at_call = EmptyDict
    /\ time_at_call = 0
    /\ requests_at_call = 0

\* _build_pkg is not called on its own: an ordinary user, the defaults of
\* the configuration.
InitNoBuild ==
    /\ uid = 1000
    /\ sudo_user = <<>>
    /\ build_user = "auto"
    /\ privilege_tool = "auto"
    /\ which = {}
    /\ bpc = "idle"
    /\ run_cmd = <<>>

\* The process before any command: a new resolver, nothing called.
InitProcess ==
    /\ InitResolver
    /\ InitInstaller
    /\ InitUpgradeCommand
    /\ InitCalls
    /\ InitNoCommand
    /\ InitNoSearch
    /\ InitNoBuild

Init == InitRequest(MaxSize, FALSE) /\ InitProcess /\ InitNoSpecifier

InitWide == InitRequest(MaxWideSize, TRUE) /\ InitProcess /\ InitNoSpecifier

----------------------------------------------------------------------------
(* AurResolver.resolve and AurResolver._visit                              *)
(*                                                                         *)
(* A frame of stack is one active _visit call that has passed its          *)
(* classification: its pkg_name, path, pkg_info, base and clean_deps, and  *)
(* i, the index of the next element of clean_deps.                         *)

Top == stack[Len(stack)]

\* resolve() or the innermost _visit is about to make its next _visit call.
CallPending ==
    /\ pc = "resolving"
    /\ IF stack = <<>> THEN req_i <= Len(packages)
                       ELSE Top.i <= Len(Top.clean_deps)

\* The arguments of that call: resolve() passes force_visit=True and no path,
\* _visit passes force_visit=False and path + [pkg_name].
CallName == IF stack = <<>> THEN packages[req_i] ELSE Top.clean_deps[Top.i]

CallForce == stack = <<>>

\* CallPath with path passed on unchanged (path=path).
CallPathStale == IF stack = <<>> THEN <<>> ELSE Top.path

CallPath == IF stack = <<>> THEN <<>> ELSE Top.path \o <<Top.pkg_name>>

\* Advance that leaves the index of the caller's loop where it is.
AdvanceStuck(st) == st

\* The caller's loop has taken the element it passes to the call.
Advance(st) ==
    IF st = <<>> THEN st
    ELSE [st EXCEPT ![Len(st)] = [@ EXCEPT !.i = @ + 1]]

AdvanceReq == IF stack = <<>> THEN req_i + 1 ELSE req_i

\* Classify without the test for installed packages.
ClassifyIgnoreInstalled(pkg_name, force_visit) ==
    IF pkg_name \in visiting THEN "cycle"
    ELSE IF pkg_name \in visited THEN "visited"
    ELSE IF is_in_official_repos(pkg_name) THEN "official"
    ELSE IF pkg_name \notin DOMAIN aur_info_cache
            /\ get_aur_info(<<pkg_name>>) = <<>> THEN "not_found"
    ELSE "aur"

\* Classify with the official test applied to dependencies only.
ClassifyOfficialDepsOnly(pkg_name, force_visit) ==
    IF pkg_name \in visiting THEN "cycle"
    ELSE IF pkg_name \in visited THEN "visited"
    ELSE IF ~force_visit /\ is_installed(pkg_name) THEN "installed"
    ELSE IF ~force_visit /\ is_in_official_repos(pkg_name) THEN "official"
    ELSE IF pkg_name \notin DOMAIN aur_info_cache
            /\ get_aur_info(<<pkg_name>>) = <<>> THEN "not_found"
    ELSE "aur"

\* The classification of _visit(pkg_name, force_visit): the first test that
\* applies, in the order of the code.
Classify(pkg_name, force_visit) ==
    IF pkg_name \in visiting THEN "cycle"
    ELSE IF pkg_name \in visited THEN "visited"
    ELSE IF ~force_visit /\ is_installed(pkg_name) THEN "installed"
    ELSE IF is_in_official_repos(pkg_name) THEN "official"
    ELSE IF pkg_name \notin DOMAIN aur_info_cache
            /\ get_aur_info(<<pkg_name>>) = <<>> THEN "not_found"
    ELSE "aur"

\* resolve(packages) is called on the new resolver.
Resolve ==
    /\ pc = "idle"
    /\ pc' = "resolving"
    /\ req_i' = 1
    /\ UNCHANGED <<ext_vars, src_vars, res_vars, stack, cycle, exit_status, rpc_calls>>

\* _visit: pkg_name is being visited: raise CyclicDependencyError(path + [pkg_name]).
\* The exception leaves every active _visit and resolve().
VisitCycle ==
    /\ CallPending
    /\ Classify(CallName, CallForce) = "cycle"
    /\ cycle' = CallPath \o <<CallName>>
    /\ pc' = "raised"
    /\ stack' = <<>>
    /\ UNCHANGED <<ext_vars, src_vars, res_vars, req_i, exit_status, rpc_calls>>

\* _visit: pkg_name is already fully processed: return.
VisitVisited ==
    /\ CallPending
    /\ Classify(CallName, CallForce) = "visited"
    /\ stack' = Advance(stack)
    /\ req_i' = AdvanceReq
    /\ UNCHANGED <<ext_vars, src_vars, res_vars, pc, cycle, exit_status, rpc_calls>>

\* _visit: pkg_name is installed and not forced: mark it visited and return.
VisitInstalled ==
    /\ CallPending
    /\ Classify(CallName, CallForce) = "installed"
    /\ visited' = visited \cup {CallName}
    /\ stack' = Advance(stack)
    /\ req_i' = AdvanceReq
    /\ UNCHANGED <<ext_vars, src_vars, visiting, queue, aur_info_cache, official_deps,
                   package_bases, base_to_info, pc, cycle, exit_status,
                   rpc_calls>>

\* _visit: pkg_name is in the official repositories: record it and return.
VisitOfficial ==
    /\ CallPending
    /\ Classify(CallName, CallForce) = "official"
    /\ official_deps' = official_deps \cup {CallName}
    /\ visited' = visited \cup {CallName}
    /\ stack' = Advance(stack)
    /\ req_i' = AdvanceReq
    /\ UNCHANGED <<ext_vars, src_vars, visiting, queue, aur_info_cache, package_bases,
                   base_to_info, pc, cycle, exit_status, rpc_calls>>

\* VisitNotFound that skips the missing package: a warning and a return.
VisitNotFoundSkip ==
    /\ CallPending
    /\ Classify(CallName, CallForce) = "not_found"
    /\ rpc_calls' = Append(rpc_calls, CallName)
    /\ visited' = visited \cup {CallName}
    /\ stack' = Advance(stack)
    /\ req_i' = AdvanceReq
    /\ UNCHANGED <<ext_vars, src_vars, visiting, queue, aur_info_cache, official_deps,
                   package_bases, base_to_info, pc, cycle, exit_status>>

\* _visit: get_aur_info([pkg_name]) is empty: print the error and sys.exit(1).
VisitNotFound ==
    /\ CallPending
    /\ Classify(CallName, CallForce) = "not_found"
    /\ rpc_calls' = Append(rpc_calls, CallName)
    /\ pc' = "exited"
    /\ exit_status' = 1
    /\ stack' = <<>>
    /\ UNCHANGED <<ext_vars, src_vars, res_vars, req_i, cycle>>

\* _visit: fetch the info (unless cached), record pkg_name under its base,
\* mark it visiting and start the loop over its cleaned dependencies.
VisitAur ==
    /\ CallPending
    /\ Classify(CallName, CallForce) = "aur"
    /\ LET pkg_name == CallName
           cached   == pkg_name \in DOMAIN aur_info_cache
           pkg_info == IF cached THEN aur_info_cache[pkg_name]
                       ELSE get_aur_info(<<pkg_name>>)[1]
           base     == Get(pkg_info.PackageBase, pkg_name)
           known    == base \in DOMAIN package_bases
           bases1   == IF known THEN package_bases
                       ELSE DictSet(package_bases, base, {})
       IN  /\ rpc_calls' = IF cached THEN rpc_calls
                           ELSE Append(rpc_calls, pkg_name)
           /\ aur_info_cache' = IF cached THEN aur_info_cache
                                ELSE DictSet(aur_info_cache, pkg_name, pkg_info)
           /\ package_bases' = DictSet(bases1, base, bases1[base] \cup {pkg_name})
           /\ base_to_info' = IF known THEN base_to_info
                              ELSE DictSet(base_to_info, base, pkg_info)
           /\ visiting' = visiting \cup {pkg_name}
           /\ stack' = Append(Advance(stack),
                              [pkg_name   |-> pkg_name,
                               path       |-> CallPath,
                               pkg_info   |-> pkg_info,
                               base       |-> base,
                               clean_deps |-> CleanAll(AllDeps(pkg_info)),
                               i          |-> 1])
           /\ req_i' = AdvanceReq
    /\ UNCHANGED <<ext_vars, src_vars, visited, queue, official_deps, pc, cycle,
                   exit_status>>

\* Enqueue with the entry put in front of the queue (insert(0, ...)).
EnqueueFront(q, base) ==
    IF base \notin QueueBases(q) THEN <<base_to_info[base]>> \o q ELSE q

\* Enqueue without the test on the PackageBase.
EnqueueAlways(q, base) == Append(q, base_to_info[base])

\* The queue after a _visit of base finishes: one entry per PackageBase.
Enqueue(q, base) ==
    IF base \notin QueueBases(q) THEN Append(q, base_to_info[base]) ELSE q

\* VisitDone without visiting.remove(pkg_name).
VisitDoneKeepsVisiting ==
    /\ pc = "resolving"
    /\ stack # <<>>
    /\ Top.i > Len(Top.clean_deps)
    /\ visiting' = visiting
    /\ visited' = visited \cup {Top.pkg_name}
    /\ queue' = Enqueue(queue, Top.base)
    /\ stack' = SubSeq(stack, 1, Len(stack) - 1)
    /\ UNCHANGED <<ext_vars, src_vars, aur_info_cache, official_deps, package_bases,
                   base_to_info, pc, req_i, cycle, exit_status, rpc_calls>>

\* _visit: every dependency is visited: mark pkg_name visited, add its base
\* to the queue unless it is there, and return.
VisitDone ==
    /\ pc = "resolving"
    /\ stack # <<>>
    /\ Top.i > Len(Top.clean_deps)
    /\ visiting' = visiting \ {Top.pkg_name}
    /\ visited' = visited \cup {Top.pkg_name}
    /\ queue' = Enqueue(queue, Top.base)
    /\ stack' = SubSeq(stack, 1, Len(stack) - 1)
    /\ UNCHANGED <<ext_vars, src_vars, aur_info_cache, official_deps, package_bases,
                   base_to_info, pc, req_i, cycle, exit_status, rpc_calls>>

\* resolve(): every requested package is visited: return self.queue.
ResolveReturn ==
    /\ pc = "resolving"
    /\ stack = <<>>
    /\ req_i > Len(packages)
    /\ pc' = "returned"
    /\ UNCHANGED <<ext_vars, src_vars, res_vars, req_i, stack, cycle, exit_status,
                   rpc_calls>>

Next ==
    \/ Resolve
    \/ VisitCycle
    \/ VisitVisited
    \/ VisitInstalled
    \/ VisitOfficial
    \/ VisitNotFound
    \/ VisitAur
    \/ VisitDone
    \/ ResolveReturn

Spec == Init /\ [][Next]_vars

SpecWide == InitWide /\ [][Next]_vars

----------------------------------------------------------------------------
(* AurInstaller.install and AurInstaller._build_pkg                        *)
(*                                                                         *)
(* cmds records the external commands that change the system (pacman -S,   *)
(* git, makepkg, pacman -U), in the order they are run.  A build produces  *)
(* one package file per queue entry.                                       *)

\* One external command: its name, its arguments and whether it succeeded.
Cmd(name, args, ok) == [cmd |-> name, args |-> args, ok |-> ok]

\* The file makepkg leaves for the queue entry pkg.
PkgFile(pkg) == [pkgfile |-> pkg.Name]

\* The control state of resolve() without the exit status of the process.
call_vars == <<pc, req_i, stack, cycle, rpc_calls>>

\* install(): what the build loop and the final batch leave alone.
plan_vars == <<build_queue, install_official_deps, queue_deps>>

\* The steps of resolver.resolve() once a command has called it.
ResolveRun ==
    \/ VisitCycle
    \/ VisitVisited
    \/ VisitInstalled
    \/ VisitOfficial
    \/ VisitNotFound
    \/ VisitAur
    \/ VisitDone
    \/ ResolveReturn

\* clean = d.split('>')[0].split('<')[0].split('=')[0].strip()
QueueClean(d) == Strip(SplitFirst(SplitFirst(SplitFirst(d, ">"), "<"), "="))

\* The set deps of one queue entry, cleaned.
CleanDepSet(pkg) ==
    {QueueClean(d) : d \in Range(pkg.Depends) \cup Range(pkg.MakeDepends)
                           \cup Range(pkg.CheckDepends)}

\* queue_deps: pkg['Name'] -> clean_deps, a later entry of the same name
\* overwriting an earlier one.
QueueDeps(q) ==
    [pname \in {q[k].Name : k \in 1..Len(q)} |->
        LET last == CHOOSE k \in 1..Len(q) :
                        /\ q[k].Name = pname
                        /\ \A j \in (k + 1)..Len(q) : q[j].Name # pname
        IN  CleanDepSet(q[last])]

\* NeededByFuture with the scan over the earlier entries (range(0, i)).
NeededByFuturePast(i) ==
    \E j \in 1..(i - 1) :
        build_queue[i].Name \in queue_deps[build_queue[j].Name]

\* NeededByFuture that holds of every entry.
NeededByFutureAlways(i) == i <= Len(build_queue)

\* needed_by_future of entry i: some later entry has its name in queue_deps.
NeededByFuture(i) ==
    \E j \in (i + 1)..Len(build_queue) :
        build_queue[i].Name \in queue_deps[build_queue[j].Name]

\* install(packages) with build_queue=None: make a resolver and call
\* resolver.resolve(packages).
InstallCall ==
    /\ ipc = "idle"
    /\ upc = "idle"
    /\ pc = "idle"
    /\ ipc' = "resolving"
    /\ pc' = "resolving"
    /\ req_i' = 1
    /\ UNCHANGED <<src_vars, res_vars, stack, cycle, exit_status, rpc_calls,
                   build_queue, install_official_deps, queue_deps, build_i,
                   needed_by_future, built_files, final_batch_paths,
                   final_batch_names, cmds, upg_vars, again_vars, strip_vars,
                   more_vars>>

\* InstallCycle that goes on with what the resolver has queued so far.
InstallCycleIgnored ==
    /\ ipc = "resolving"
    /\ pc = "raised"
    /\ build_queue' = queue
    /\ install_official_deps' = official_deps
    /\ ipc' = IF queue = <<>> THEN "done" ELSE "summary"
    /\ UNCHANGED <<src_vars, res_vars, call_vars, exit_status, queue_deps,
                   build_i, needed_by_future, built_files, final_batch_paths,
                   final_batch_names, cmds, upg_vars, again_vars, strip_vars,
                   more_vars>>

\* install(): resolve raised CyclicDependencyError: print it and sys.exit(1).
InstallCycle ==
    /\ ipc = "resolving"
    /\ pc = "raised"
    /\ ipc' = "exited"
    /\ exit_status' = 1
    /\ UNCHANGED <<src_vars, res_vars, call_vars, plan_vars, build_i,
                   needed_by_future, built_files, final_batch_paths,
                   final_batch_names, cmds, upg_vars, again_vars, strip_vars,
                   more_vars>>

\* install(): resolve returned: take the queue and resolver.official_deps;
\* with an empty queue there is nothing to do and install returns.
InstallResolved ==
    /\ ipc = "resolving"
    /\ pc = "returned"
    /\ build_queue' = queue
    /\ install_official_deps' = official_deps
    /\ ipc' = IF queue = <<>> THEN "done" ELSE "summary"
    /\ UNCHANGED <<src_vars, res_vars, call_vars, exit_status, queue_deps,
                   build_i, needed_by_future, built_files, final_batch_paths,
                   final_batch_names, cmds, upg_vars, again_vars, strip_vars,
                   more_vars>>

\* install(): the summary is shown and confirmed (auto_confirm or "y").
InstallConfirmed ==
    /\ ipc = "summary"
    /\ ipc' = "official"
    /\ UNCHANGED <<src_vars, res_vars, call_vars, exit_status, plan_vars,
                   build_i, needed_by_future, built_files, final_batch_paths,
                   final_batch_names, cmds, upg_vars, again_vars, strip_vars,
                   more_vars>>

\* install(): the user declines: sys.exit(0).
InstallDeclined ==
    /\ ipc = "summary"
    /\ ipc' = "exited"
    /\ exit_status' = 0
    /\ UNCHANGED <<src_vars, res_vars, call_vars, plan_vars, build_i,
                   needed_by_future, built_files, final_batch_paths,
                   final_batch_names, cmds, upg_vars, again_vars, strip_vars,
                   more_vars>>

\* install(): the build loop starts: final_batch_paths = [],
\* final_batch_names = [], queue_deps computed, i = 0.
StartBuilds ==
    /\ ipc' = "build"
    /\ queue_deps' = QueueDeps(build_queue)
    /\ build_i' = 1
    /\ final_batch_paths' = <<>>
    /\ final_batch_names' = <<>>

\* install(): official_deps is empty: no pacman -S.
OfficialDepsNone ==
    /\ ipc = "official"
    /\ install_official_deps = {}
    /\ StartBuilds
    /\ UNCHANGED <<src_vars, res_vars, call_vars, exit_status, build_queue,
                   install_official_deps, needed_by_future, built_files, cmds,
                   upg_vars, again_vars, strip_vars, more_vars>>

\* install(): pacman -S --needed --asdeps of the official deps succeeds.
OfficialDepsInstalled ==
    /\ ipc = "official"
    /\ install_official_deps # {}
    /\ cmds' = Append(cmds, Cmd("pacman -S --needed --asdeps",
                                install_official_deps, TRUE))
    /\ StartBuilds
    /\ UNCHANGED <<src_vars, res_vars, call_vars, exit_status, build_queue,
                   install_official_deps, needed_by_future, built_files,
                   upg_vars, again_vars, strip_vars, more_vars>>

\* OfficialDepsFailed without the exit: the build loop starts.
OfficialDepsFailedGoesOn ==
    /\ ipc = "official"
    /\ install_official_deps # {}
    /\ cmds' = Append(cmds, Cmd("pacman -S --needed --asdeps",
                                install_official_deps, FALSE))
    /\ StartBuilds
    /\ UNCHANGED <<src_vars, res_vars, call_vars, exit_status, build_queue,
                   install_official_deps, needed_by_future, built_files,
                   upg_vars, again_vars, strip_vars, more_vars>>

\* install(): pacman -S --needed --asdeps fails: sys.exit(1).
OfficialDepsFailed ==
    /\ ipc = "official"
    /\ install_official_deps # {}
    /\ cmds' = Append(cmds, Cmd("pacman -S --needed --asdeps",
                                install_official_deps, FALSE))
    /\ ipc' = "exited"
    /\ exit_status' = 1
    /\ UNCHANGED <<src_vars, res_vars, call_vars, plan_vars, build_i,
                   needed_by_future, built_files, final_batch_paths,
                   final_batch_names, upg_vars, again_vars, strip_vars,
                   more_vars>>

\* The build loop is at entry i of build_queue.
AtBuild ==
    /\ ipc = "build"
    /\ build_i <= Len(build_queue)

\* pkg of the loop, and the base _build_pkg clones.
BuildPkg == build_queue[build_i]

BuildBase == Get(BuildPkg.PackageBase, BuildPkg.Name)

\* The process ends inside the build of entry i, after the commands run.
BuildExit(run) ==
    /\ cmds' = cmds \o run
    /\ needed_by_future' = NeededByFuture(build_i)
    /\ ipc' = "exited"
    /\ exit_status' = 1
    /\ UNCHANGED <<src_vars, res_vars, call_vars, plan_vars, build_i,
                   built_files, final_batch_paths, final_batch_names,
                   upg_vars, again_vars, strip_vars, more_vars>>

\* _build_pkg: git clone or pull fails: sys.exit(1).
BuildDownloadFailed ==
    /\ AtBuild
    /\ BuildExit(<<Cmd("git", BuildBase, FALSE)>>)

\* _build_pkg: running as root without SUDO_USER: sys.exit(1).
BuildNoBuildUser ==
    /\ AtBuild
    /\ BuildExit(<<Cmd("git", BuildBase, TRUE)>>)

\* _build_pkg: makepkg fails (CalledProcessError): sys.exit(1).
BuildMakepkgFailed ==
    /\ AtBuild
    /\ BuildExit(<<Cmd("git", BuildBase, TRUE),
                   Cmd("makepkg", BuildPkg.Name, FALSE)>>)

\* BuildNoFiles that goes on to the next entry (continue).
BuildNoFilesSkip ==
    /\ AtBuild
    /\ cmds' = cmds \o <<Cmd("git", BuildBase, TRUE),
                         Cmd("makepkg", BuildPkg.Name, TRUE)>>
    /\ needed_by_future' = NeededByFuture(build_i)
    /\ built_files' = <<>>
    /\ build_i' = build_i + 1
    /\ UNCHANGED <<src_vars, res_vars, call_vars, exit_status, plan_vars,
                   ipc, final_batch_paths, final_batch_names,
                   upg_vars, again_vars, strip_vars, more_vars>>

\* _build_pkg returns no file: install() prints "Build failed" and
\* sys.exit(1).
BuildNoFiles ==
    /\ AtBuild
    /\ cmds' = cmds \o <<Cmd("git", BuildBase, TRUE),
                         Cmd("makepkg", BuildPkg.Name, TRUE)>>
    /\ needed_by_future' = NeededByFuture(build_i)
    /\ built_files' = <<>>
    /\ ipc' = "exited"
    /\ exit_status' = 1
    /\ UNCHANGED <<src_vars, res_vars, call_vars, plan_vars, build_i,
                   final_batch_paths, final_batch_names,
                   upg_vars, again_vars, strip_vars, more_vars>>

\* _build_pkg returns the built files of entry i.
BuildDone ==
    /\ AtBuild
    /\ cmds' = cmds \o <<Cmd("git", BuildBase, TRUE),
                         Cmd("makepkg", BuildPkg.Name, TRUE)>>
    /\ needed_by_future' = NeededByFuture(build_i)
    /\ built_files' = <<PkgFile(BuildPkg)>>
    /\ ipc' = "built"
    /\ UNCHANGED <<src_vars, res_vars, call_vars, exit_status, plan_vars,
                   build_i, final_batch_paths, final_batch_names,
                   upg_vars, again_vars, strip_vars, more_vars>>

\* InstallNow that queues the files for the final install instead.
InstallNowDeferred ==
    /\ ipc = "built"
    /\ needed_by_future
    /\ final_batch_paths' = final_batch_paths \o built_files
    /\ final_batch_names' = Append(final_batch_names, BuildPkg.Name)
    /\ build_i' = build_i + 1
    /\ ipc' = "build"
    /\ UNCHANGED <<src_vars, res_vars, call_vars, exit_status, plan_vars,
                   needed_by_future, built_files, cmds,
                   upg_vars, again_vars, strip_vars, more_vars>>

\* install(): entry i is needed by a later entry: pacman -U --noconfirm
\* --asdeps of its built files succeeds; on to the next entry.
InstallNow ==
    /\ ipc = "built"
    /\ needed_by_future
    /\ cmds' = Append(cmds, Cmd("pacman -U --asdeps", built_files, TRUE))
    /\ build_i' = build_i + 1
    /\ ipc' = "build"
    /\ UNCHANGED <<src_vars, res_vars, call_vars, exit_status, plan_vars,
                   needed_by_future, built_files, final_batch_paths,
                   final_batch_names, upg_vars, again_vars, strip_vars,
                   more_vars>>

\* install(): that pacman -U --asdeps fails: sys.exit(1).
InstallNowFailed ==
    /\ ipc = "built"
    /\ needed_by_future
    /\ cmds' = Append(cmds, Cmd("pacman -U --asdeps", built_files, FALSE))
    /\ ipc' = "exited"
    /\ exit_status' = 1
    /\ UNCHANGED <<src_vars, res_vars, call_vars, plan_vars, build_i,
                   needed_by_future, built_files, final_batch_paths,
                   final_batch_names, upg_vars, again_vars, strip_vars,
                   more_vars>>

\* DeferInstall that installs the files at once (pacman -U).
DeferInstallAtOnce ==
    /\ ipc = "built"
    /\ ~needed_by_future
    /\ cmds' = Append(cmds, Cmd("pacman -U", built_files, TRUE))
    /\ final_batch_paths' = final_batch_paths \o built_files
    /\ final_batch_names' = Append(final_batch_names, BuildPkg.Name)
    /\ build_i' = build_i + 1
    /\ ipc' = "build"
    /\ UNCHANGED <<src_vars, res_vars, call_vars, exit_status, plan_vars,
                   needed_by_future, built_files,
                   upg_vars, again_vars, strip_vars, more_vars>>

\* install(): entry i is not needed later: queue it for the final install.
DeferInstall ==
    /\ ipc = "built"
    /\ ~needed_by_future
    /\ final_batch_paths' = final_batch_paths \o built_files
    /\ final_batch_names' = Append(final_batch_names, BuildPkg.Name)
    /\ build_i' = build_i + 1
    /\ ipc' = "build"
    /\ UNCHANGED <<src_vars, res_vars, call_vars, exit_status, plan_vars,
                   needed_by_future, built_files, cmds,
                   upg_vars, again_vars, strip_vars, more_vars>>

\* install(): after the loop: pacman -U of final_batch_paths, if any,
\* succeeds; install returns.
FinalBatchInstalled ==
    /\ ipc = "build"
    /\ build_i > Len(build_queue)
    /\ cmds' = IF final_batch_paths # <<>>
               THEN Append(cmds, Cmd("pacman -U", final_batch_paths, TRUE))
               ELSE cmds
    /\ ipc' = "done"
    /\ UNCHANGED <<src_vars, res_vars, call_vars, exit_status, plan_vars,
                   build_i, needed_by_future, built_files, final_batch_paths,
                   final_batch_names, upg_vars, again_vars, strip_vars,
                   more_vars>>

\* install(): the final pacman -U fails: sys.exit(1).
FinalBatchFailed ==
    /\ ipc = "build"
    /\ build_i > Len(build_queue)
    /\ final_batch_paths # <<>>
    /\ cmds' = Append(cmds, Cmd("pacman -U", final_batch_paths, FALSE))
    /\ ipc' = "exited"
    /\ exit_status' = 1
    /\ UNCHANGED <<src_vars, res_vars, call_vars, plan_vars, build_i,
                   needed_by_future, built_files, final_batch_paths,
                   final_batch_names, upg_vars, again_vars, strip_vars,
                   more_vars>>

\* The steps of install() from STEP 1 on: the official dependencies, the
\* build loop and the final batch.
BuildRun ==
    \/ OfficialDepsNone
    \/ OfficialDepsInstalled
    \/ OfficialDepsFailed
    \/ BuildDownloadFailed
    \/ BuildNoBuildUser
    \/ BuildMakepkgFailed
    \/ BuildNoFiles
    \/ BuildDone
    \/ InstallNow
    \/ InstallNowFailed
    \/ DeferInstall
    \/ FinalBatchInstalled
    \/ FinalBatchFailed

\* The steps of install() after its resolver has ended.
InstallRun ==
    \/ InstallCycle
    \/ InstallResolved
    \/ InstallConfirmed
    \/ InstallDeclined
    \/ BuildRun

\* The process runs install(packages).
NextInstall == InstallCall \/ ResolveRun \/ InstallRun

SpecInstall == Init /\ [][NextInstall]_vars

----------------------------------------------------------------------------
(* execute_command, the upgrade / dist-upgrade / full-upgrade branch       *)
(*                                                                         *)
(* packages is the list of names aur.check_updates() reports: installed    *)
(* packages that the AUR knows with a newer version.                       *)

\* The names check_updates() can report, each once.
UpdateCandidates ==
    /\ \A k \in 1..Len(packages) :
          is_installed(packages[k]) /\ aur_db[packages[k]] # <<>>
    /\ \A j, k \in 1..Len(packages) : packages[j] = packages[k] => j = k

InitUpgrade ==
    /\ InitRequest(MaxSize, FALSE)
    /\ UpdateCandidates
    /\ InitProcess
    /\ InitNoSpecifier

\* The (run_official, run_aur) pairs: all (also dist-upgrade), --aur,
\* --official.
UpgradeFlags == {<<TRUE, TRUE>>, <<FALSE, TRUE>>, <<TRUE, FALSE>>}

\* upgrade: the flags are read and, with run_official, sync_databases()
\* (pacman -Sy) succeeds.
UpgradeCall ==
    /\ upc = "idle"
    /\ ipc = "idle"
    /\ pc = "idle"
    /\ \E fl \in UpgradeFlags :
          /\ run_official' = fl[1]
          /\ run_aur' = fl[2]
          /\ cmds' = IF fl[1] THEN Append(cmds, Cmd("pacman -Sy", <<>>, TRUE))
                     ELSE cmds
    /\ upc' = "check"
    /\ UNCHANGED <<src_vars, res_vars, ctl_vars, ipc, plan_vars, build_i,
                   needed_by_future, built_files, final_batch_paths,
                   final_batch_names, aur_candidates, aur_build_queue,
                   official_deps_for_aur, again_vars, strip_vars, more_vars>>

\* upgrade: sync_databases() fails: sys.exit(1).
UpgradeSyncFailed ==
    /\ upc = "idle"
    /\ ipc = "idle"
    /\ pc = "idle"
    /\ run_official' = TRUE
    /\ cmds' = Append(cmds, Cmd("pacman -Sy", <<>>, FALSE))
    /\ upc' = "exited"
    /\ exit_status' = 1
    /\ UNCHANGED <<src_vars, res_vars, call_vars, ipc, plan_vars, build_i,
                   needed_by_future, built_files, final_batch_paths,
                   final_batch_names, run_aur, aur_candidates,
                   aur_build_queue, official_deps_for_aur, again_vars,
                   strip_vars, more_vars>>

\* upgrade: run_aur: check_updates() reports updates; make a resolver and
\* call resolver.resolve(aur_candidates).
UpgradeCheckAur ==
    /\ upc = "check"
    /\ run_aur
    /\ aur_candidates' = packages
    /\ pc' = "resolving"
    /\ req_i' = 1
    /\ upc' = "resolving"
    /\ UNCHANGED <<src_vars, res_vars, stack, cycle, exit_status, rpc_calls,
                   inst_vars, run_official, run_aur, aur_build_queue,
                   official_deps_for_aur, again_vars, strip_vars, more_vars>>

\* upgrade: not run_aur: no AUR check.
UpgradeSkipAur ==
    /\ upc = "check"
    /\ ~run_aur
    /\ upc' = "summary"
    /\ UNCHANGED <<src_vars, res_vars, ctl_vars, inst_vars, run_official,
                   run_aur, aur_candidates, aur_build_queue,
                   official_deps_for_aur, again_vars, strip_vars, more_vars>>

\* upgrade: resolve returned: keep the queue and resolver.official_deps.
UpgradeResolved ==
    /\ upc = "resolving"
    /\ pc = "returned"
    /\ aur_build_queue' = queue
    /\ official_deps_for_aur' = official_deps
    /\ upc' = "summary"
    /\ UNCHANGED <<src_vars, res_vars, ctl_vars, inst_vars, run_official,
                   run_aur, aur_candidates, again_vars, strip_vars,
                   more_vars>>

\* upgrade: resolve raised CyclicDependencyError: "except Exception" prints
\* the error and sets aur_candidates = []; the command goes on.
UpgradeResolveFailed ==
    /\ upc = "resolving"
    /\ pc = "raised"
    /\ aur_candidates' = <<>>
    /\ upc' = "summary"
    /\ UNCHANGED <<src_vars, res_vars, ctl_vars, inst_vars, run_official,
                   run_aur, aur_build_queue, official_deps_for_aur,
                   again_vars, strip_vars, more_vars>>

\* upgrade: show_summary() returns: the user confirmed.
UpgradeConfirmed ==
    /\ upc = "summary"
    /\ upc' = "official"
    /\ UNCHANGED <<src_vars, res_vars, ctl_vars, inst_vars, run_official,
                   run_aur, aur_candidates, aur_build_queue,
                   official_deps_for_aur, again_vars, strip_vars, more_vars>>

\* upgrade: show_summary(): the user declines: sys.exit(0).
UpgradeDeclined ==
    /\ upc = "summary"
    /\ upc' = "exited"
    /\ exit_status' = 0
    /\ UNCHANGED <<src_vars, res_vars, call_vars, inst_vars, run_official,
                   run_aur, aur_candidates, aur_build_queue,
                   official_deps_for_aur, again_vars, strip_vars, more_vars>>

\* upgrade: run_official: pacman -Su succeeds.
UpgradeOfficial ==
    /\ upc = "official"
    /\ run_official
    /\ cmds' = Append(cmds, Cmd("pacman -Su", <<>>, TRUE))
    /\ upc' = "aur"
    /\ UNCHANGED <<src_vars, res_vars, ctl_vars, ipc, plan_vars, build_i,
                   needed_by_future, built_files, final_batch_paths,
                   final_batch_names, run_official, run_aur, aur_candidates,
                   aur_build_queue, official_deps_for_aur, again_vars,
                   strip_vars, more_vars>>

\* UpgradeOfficialFailed without the exit: the AUR step comes next.
UpgradeOfficialFailedGoesOn ==
    /\ upc = "official"
    /\ run_official
    /\ cmds' = Append(cmds, Cmd("pacman -Su", <<>>, FALSE))
    /\ upc' = "aur"
    /\ exit_status' = exit_status
    /\ UNCHANGED <<src_vars, res_vars, call_vars, ipc, plan_vars, build_i,
                   needed_by_future, built_files, final_batch_paths,
                   final_batch_names, run_official, run_aur, aur_candidates,
                   aur_build_queue, official_deps_for_aur, again_vars,
                   strip_vars, more_vars>>

\* upgrade: pacman -Su fails: sys.exit(1).
UpgradeOfficialFailed ==
    /\ upc = "official"
    /\ run_official
    /\ cmds' = Append(cmds, Cmd("pacman -Su", <<>>, FALSE))
    /\ upc' = "exited"
    /\ exit_status' = 1
    /\ UNCHANGED <<src_vars, res_vars, call_vars, ipc, plan_vars, build_i,
                   needed_by_future, built_files, final_batch_paths,
                   final_batch_names, run_official, run_aur, aur_candidates,
                   aur_build_queue, official_deps_for_aur, again_vars,
                   strip_vars, more_vars>>

\* upgrade: not run_official: no pacman -Su.
UpgradeOfficialSkipped ==
    /\ upc = "official"
    /\ ~run_official
    /\ upc' = "aur"
    /\ UNCHANGED <<src_vars, res_vars, ctl_vars, inst_vars, run_official,
                   run_aur, aur_candidates, aur_build_queue,
                   official_deps_for_aur, again_vars, strip_vars, more_vars>>

\* upgrade: run_aur and aur_candidates: installer.install(aur_candidates,
\* build_queue=aur_build_queue, official_deps=official_deps_for_aur,
\* skip_summary=True); with an empty queue install returns at once.
UpgradeAur ==
    /\ upc = "aur"
    /\ run_aur
    /\ aur_candidates # <<>>
    /\ build_queue' = aur_build_queue
    /\ install_official_deps' = official_deps_for_aur
    /\ ipc' = IF aur_build_queue = <<>> THEN "done" ELSE "official"
    /\ upc' = "installing"
    /\ UNCHANGED <<src_vars, res_vars, ctl_vars, queue_deps, build_i,
                   needed_by_future, built_files, final_batch_paths,
                   final_batch_names, cmds, run_official, run_aur,
                   aur_candidates, aur_build_queue, official_deps_for_aur,
                   again_vars, strip_vars, more_vars>>

\* upgrade: nothing to install from the AUR.
UpgradeNoAur ==
    /\ upc = "aur"
    /\ ~(run_aur /\ aur_candidates # <<>>)
    /\ upc' = "files"
    /\ UNCHANGED <<src_vars, res_vars, ctl_vars, inst_vars, run_official,
                   run_aur, aur_candidates, aur_build_queue,
                   official_deps_for_aur, again_vars, strip_vars, more_vars>>

\* upgrade: installer.install() returned.
UpgradeAurInstalled ==
    /\ upc = "installing"
    /\ ipc = "done"
    /\ upc' = "files"
    /\ UNCHANGED <<src_vars, res_vars, ctl_vars, inst_vars, run_official,
                   run_aur, aur_candidates, aur_build_queue,
                   official_deps_for_aur, again_vars, strip_vars, more_vars>>

\* upgrade: with run_official the file database is synced (pacman -Fy);
\* the command returns.
UpgradeFinish ==
    /\ upc = "files"
    /\ cmds' = IF run_official THEN Append(cmds, Cmd("pacman -Fy", <<>>, TRUE))
               ELSE cmds
    /\ upc' = "done"
    /\ UNCHANGED <<src_vars, res_vars, ctl_vars, ipc, plan_vars, build_i,
                   needed_by_future, built_files, final_batch_paths,
                   final_batch_names, run_official, run_aur, aur_candidates,
                   aur_build_queue, official_deps_for_aur, again_vars,
                   strip_vars, more_vars>>

\* The steps of the upgrade command around resolve() and install().
UpgradeRun ==
    \/ UpgradeCall
    \/ UpgradeSyncFailed
    \/ UpgradeCheckAur
    \/ UpgradeSkipAur
    \/ UpgradeResolved
    \/ UpgradeResolveFailed
    \/ UpgradeConfirmed
    \/ UpgradeDeclined
    \/ UpgradeOfficial
    \/ UpgradeOfficialFailed
    \/ UpgradeOfficialSkipped
    \/ UpgradeAur
    \/ UpgradeNoAur
    \/ UpgradeAurInstalled
    \/ UpgradeFinish

\* The process runs the upgrade command.
NextUpgrade == UpgradeRun \/ ResolveRun \/ BuildRun

SpecUpgrade == InitUpgrade /\ [][NextUpgrade]_vars

----------------------------------------------------------------------------
(* A second resolve() call: on the same AurResolver, whose fields          *)
(* resolve() does not reset, or on a new one.                              *)

\* The arguments of the second call: the same list, or one name.
SecondRequests == {packages} \cup {<<n>> : n \in PkgNames}

\* What the caller keeps of the call that has ended.
KeepFirstCall ==
    /\ prev_packages' = packages
    /\ prev_pc' = pc
    /\ prev_queue' = queue
    /\ prev_official_deps' = official_deps

\* ResolveAgain on a resolver whose resolve() starts with self.queue = [].
ResolveAgainQueueCleared ==
    /\ call_kind = "first"
    /\ pc \in {"returned", "raised"}
    /\ \E req \in SecondRequests : packages' = req
    /\ KeepFirstCall
    /\ call_kind' = "again"
    /\ queue' = <<>>
    /\ pc' = "resolving"
    /\ req_i' = 1
    /\ cycle' = <<>>
    /\ UNCHANGED <<installed, official, aur_db, visiting, visited,
                   aur_info_cache, official_deps, package_bases, base_to_info,
                   stack, exit_status, rpc_calls, inst_vars, upg_vars,
                   strip_vars, more_vars>>

\* resolve(req) is called on the resolver of the first call, after that
\* call returned or raised.
ResolveAgain ==
    /\ call_kind = "first"
    /\ pc \in {"returned", "raised"}
    /\ \E req \in SecondRequests : packages' = req
    /\ KeepFirstCall
    /\ call_kind' = "again"
    /\ pc' = "resolving"
    /\ req_i' = 1
    /\ cycle' = <<>>
    /\ UNCHANGED <<installed, official, aur_db, res_vars, stack, exit_status,
                   rpc_calls, inst_vars, upg_vars, strip_vars, more_vars>>

\* AurResolver().resolve(packages): the same list on a new resolver.
ResolveFresh ==
    /\ call_kind = "first"
    /\ pc \in {"returned", "raised"}
    /\ KeepFirstCall
    /\ call_kind' = "fresh"
    /\ visiting' = {}
    /\ visited' = {}
    /\ queue' = <<>>
    /\ aur_info_cache' = EmptyDict
    /\ official_deps' = {}
    /\ package_bases' = EmptyDict
    /\ base_to_info' = EmptyDict
    /\ pc' = "resolving"
    /\ req_i' = 1
    /\ cycle' = <<>>
    /\ UNCHANGED <<src_vars, stack, exit_status, rpc_calls, inst_vars,
                   upg_vars, strip_vars, more_vars>>

\* A caller makes two resolve() calls.
NextTwice == Next \/ ResolveAgain \/ ResolveFresh

SpecTwice == Init /\ [][NextTwice]_vars

----------------------------------------------------------------------------
(* Version-constraint stripping on its own: one dependency specifier, put  *)
(* through the cleaning expression of AurResolver._visit and through the   *)
(* one of AurInstaller.install.                                            *)

\* The length of a dependency specifier.
MaxSpecLen == 4

\* The characters of a dependency specifier: two name characters, two
\* whitespace characters and the three constraint characters.
SpecChars == {"f", "1", " ", "\t", ">", "<", "="}

\* The specifiers of length at most n.
RECURSIVE Specifiers(_)
Specifiers(n) ==
    IF n = 0 THEN {<<>>}
    ELSE LET shorter == Specifiers(n - 1)
         IN  shorter \cup {Append(s, c) : s \in shorter, c \in SpecChars}

\* A Metadata Source without packages and an empty request.
InitNoSource ==
    /\ installed = {}
    /\ official = {}
    /\ aur_db = [n \in PkgNames |-> <<>>]
    /\ packages = <<>>

InitStrip ==
    /\ InitNoSource
    /\ InitProcess
    /\ strip_in \in Specifiers(MaxSpecLen)
    /\ strip_done = {}
    /\ strip_visit = <<>>
    /\ strip_queue = <<>>

\* _visit: clean_name of the specifier d.
StripVisit ==
    /\ "resolver" \notin strip_done
    /\ strip_visit' = CleanName(strip_in)
    /\ strip_done' = strip_done \cup {"resolver"}
    /\ UNCHANGED <<src_vars, res_vars, ctl_vars, inst_vars, upg_vars,
                   again_vars, strip_in, strip_queue, more_vars>>

\* install(): clean of the specifier d.
StripQueue ==
    /\ "installer" \notin strip_done
    /\ strip_queue' = QueueClean(strip_in)
    /\ strip_done' = strip_done \cup {"installer"}
    /\ UNCHANGED <<src_vars, res_vars, ctl_vars, inst_vars, upg_vars,
                   again_vars, strip_in, strip_visit, more_vars>>

NextStrip == StripVisit \/ StripQueue

SpecStrip == InitStrip /\ [][NextStrip]_vars

----------------------------------------------------------------------------
(* execute_command("install", extra_args)                                  *)
(*                                                                         *)
(* An argument is a package name, a flag (it starts with "-") or the path  *)
(* of a file.  The global flags (-y, -q, --verbose) are already removed.   *)

\* The weighted size of a Metadata Source plus arguments under SpecCommand.
MaxArgsSize == 3

FlagArg == <<"-", "w">>

FilePath == <<"/", "f">>

\* The argument lists made of the names r, a flag and a path.
ArgLists(r) ==
    {r, <<FlagArg>> \o r, r \o <<FlagArg>>, <<FilePath>> \o r,
     r \o <<FilePath>>}

\* aur.is_valid_package(path): a file that is a pacman package.
is_valid_package(path) == path \in valid_packages

\* pkg.startswith('-')
IsFlag(pkg) == pkg # <<>> /\ Head(pkg) = "-"

\* aur.get_aur_info([pkg]) of an argument: nothing for what no package of
\* the AUR is named.
ArgAurInfo(pkg) == IF pkg \in DOMAIN aur_db THEN get_aur_info(<<pkg>>) ELSE <<>>

InitCommand ==
    /\ InitRequest(MaxArgsSize, FALSE)
    /\ InitResolver
    /\ InitInstaller
    /\ InitUpgradeCommand
    /\ InitCalls
    /\ InitNoSearch
    /\ InitNoBuild
    /\ InitNoSpecifier
    /\ cpc = "idle"
    /\ extra_args \in ArgLists(packages)
    /\ valid_packages \in SUBSET (Range(extra_args) \cap {FilePath})
    /\ arg_i = 1
    /\ official_pkgs = <<>>
    /\ aur_pkgs = <<>>
    /\ pacman_cmd = ""

\* install: a local package file among the arguments: pacman -U extra_args;
\* otherwise the loop over extra_args starts.
InstallCommand ==
    /\ cpc = "idle"
    /\ IF \E k \in 1..Len(extra_args) : is_valid_package(extra_args[k])
       THEN /\ pacman_cmd' = "pacman -U"
            /\ cpc' = "summary"
       ELSE /\ pacman_cmd' = pacman_cmd
            /\ cpc' = "classify"
    /\ arg_i' = 1
    /\ official_pkgs' = <<>>
    /\ aur_pkgs' = <<>>
    /\ UNCHANGED <<src_vars, res_vars, ctl_vars, inst_vars, upg_vars,
                   again_vars, strip_vars, extra_args, valid_packages,
                   cache_vars, priv_vars>>

\* ClassifyArg that takes a name found nowhere for an official one.
ClassifyArgUnknownOfficial ==
    /\ cpc = "classify"
    /\ arg_i <= Len(extra_args)
    /\ LET pkg == extra_args[arg_i]
       IN  IF IsFlag(pkg) \/ is_in_official_repos(pkg)
              \/ ArgAurInfo(pkg) = <<>>
           THEN /\ official_pkgs' = Append(official_pkgs, pkg)
                /\ UNCHANGED <<aur_pkgs, rpc_calls>>
           ELSE /\ aur_pkgs' = Append(aur_pkgs, pkg)
                /\ rpc_calls' = Append(rpc_calls, pkg)
                /\ UNCHANGED official_pkgs
    /\ arg_i' = arg_i + 1
    /\ UNCHANGED <<src_vars, res_vars, pc, req_i, stack, cycle, inst_vars,
                   upg_vars, again_vars, strip_vars, cpc, extra_args,
                   valid_packages, pacman_cmd, cache_vars, priv_vars,
                   exit_status>>

\* install: one round of the loop over extra_args: a flag and an official
\* name go to official_pkgs, a name the AUR knows to aur_pkgs; any other
\* name: "Unable to locate package" and sys.exit(100).
ClassifyArg ==
    /\ cpc = "classify"
    /\ arg_i <= Len(extra_args)
    /\ LET pkg == extra_args[arg_i]
       IN  IF IsFlag(pkg) \/ is_in_official_repos(pkg)
           THEN /\ official_pkgs' = Append(official_pkgs, pkg)
                /\ arg_i' = arg_i + 1
                /\ UNCHANGED <<aur_pkgs, rpc_calls, cpc, exit_status>>
           ELSE /\ rpc_calls' = Append(rpc_calls, pkg)
                /\ IF ArgAurInfo(pkg) # <<>>
                   THEN /\ aur_pkgs' = Append(aur_pkgs, pkg)
                        /\ arg_i' = arg_i + 1
                        /\ UNCHANGED <<official_pkgs, cpc, exit_status>>
                   ELSE /\ cpc' = "exited"
                        /\ exit_status' = 100
                        /\ UNCHANGED <<official_pkgs, aur_pkgs, arg_i>>
    /\ UNCHANGED <<src_vars, res_vars, pc, req_i, stack, cycle, inst_vars,
                   upg_vars, again_vars, strip_vars, extra_args,
                   valid_packages, pacman_cmd, cache_vars, priv_vars>>

\* install: the loop is over: with AUR names the official ones come first,
\* without any the command is pacman -S extra_args.
Classified ==
    /\ cpc = "classify"
    /\ arg_i > Len(extra_args)
    /\ IF aur_pkgs # <<>>
       THEN /\ cpc' = "official"
            /\ pacman_cmd' = pacman_cmd
       ELSE /\ cpc' = "summary"
            /\ pacman_cmd' = "pacman -S"
    /\ UNCHANGED <<src_vars, res_vars, ctl_vars, inst_vars, upg_vars,
                   again_vars, strip_vars, extra_args, valid_packages, arg_i,
                   official_pkgs, aur_pkgs, cache_vars, priv_vars>>

\* install: subprocess.run(["pacman", "-S"] + official_pkgs) when there are
\* official_pkgs; its result is not looked at.
OfficialFirst ==
    /\ cpc = "official"
    /\ IF official_pkgs # <<>>
       THEN \E ok \in BOOLEAN :
                cmds' = Append(cmds, Cmd("pacman -S", official_pkgs, ok))
       ELSE cmds' = cmds
    /\ cpc' = "aur"
    /\ UNCHANGED <<src_vars, res_vars, ctl_vars, ipc, build_queue,
                   install_official_deps, queue_deps, build_i,
                   needed_by_future, built_files, final_batch_paths,
                   final_batch_names, upg_vars, again_vars, strip_vars,
                   extra_args, valid_packages, arg_i, official_pkgs, aur_pkgs,
                   pacman_cmd, cache_vars, priv_vars>>

\* install: installer = aur.AurInstaller(); installer.install(aur_pkgs):
\* a new resolver resolves aur_pkgs.
InstallAur ==
    /\ cpc = "aur"
    /\ ipc = "idle"
    /\ pc = "idle"
    /\ cpc' = "installing"
    /\ packages' = aur_pkgs
    /\ ipc' = "resolving"
    /\ pc' = "resolving"
    /\ req_i' = 1
    /\ UNCHANGED <<installed, official, aur_db, res_vars, stack, cycle,
                   exit_status, rpc_calls, build_queue, install_official_deps,
                   queue_deps, build_i, needed_by_future, built_files,
                   final_batch_paths, final_batch_names, cmds, upg_vars,
                   again_vars, strip_vars, extra_args, valid_packages, arg_i,
                   official_pkgs, aur_pkgs, pacman_cmd, cache_vars, priv_vars>>

\* install: installer.install returned: return.
AurInstalled ==
    /\ cpc = "installing"
    /\ ipc = "done"
    /\ cpc' = "done"
    /\ UNCHANGED <<src_vars, res_vars, ctl_vars, inst_vars, upg_vars,
                   again_vars, strip_vars, extra_args, valid_packages, arg_i,
                   official_pkgs, aur_pkgs, pacman_cmd, cache_vars, priv_vars>>

\* install: show_summary and the partial upgrade prompt are confirmed.
CommandConfirmed ==
    /\ cpc = "summary"
    /\ cpc' = "pacman"
    /\ UNCHANGED <<src_vars, res_vars, ctl_vars, inst_vars, upg_vars,
                   again_vars, strip_vars, extra_args, valid_packages, arg_i,
                   official_pkgs, aur_pkgs, pacman_cmd, cache_vars, priv_vars>>

\* install: show_summary or the partial upgrade prompt is declined:
\* sys.exit(0).
CommandDeclined ==
    /\ cpc = "summary"
    /\ cpc' = "exited"
    /\ exit_status' = 0
    /\ UNCHANGED <<src_vars, res_vars, call_vars, inst_vars, upg_vars,
                   again_vars, strip_vars, extra_args, valid_packages, arg_i,
                   official_pkgs, aur_pkgs, pacman_cmd, cache_vars, priv_vars>>

\* install: run_pacman_with_apt_output(current_cmd); sys.exit(1) when it
\* fails.
CommandPacman ==
    /\ cpc = "pacman"
    /\ \E ok \in BOOLEAN :
        /\ cmds' = Append(cmds, Cmd(pacman_cmd, extra_args, ok))
        /\ cpc' = IF ok THEN "done" ELSE "exited"
        /\ exit_status' = IF ok THEN exit_status ELSE 1
    /\ UNCHANGED <<src_vars, res_vars, call_vars, ipc, build_queue,
                   install_official_deps, queue_deps, build_i,
                   needed_by_future, built_files, final_batch_paths,
                   final_batch_names, upg_vars, again_vars, strip_vars,
                   extra_args, valid_packages, arg_i, official_pkgs, aur_pkgs,
                   pacman_cmd, cache_vars, priv_vars>>

CommandRun ==
    \/ InstallCommand
    \/ ClassifyArg
    \/ Classified
    \/ OfficialFirst
    \/ InstallAur
    \/ AurInstalled
    \/ CommandConfirmed
    \/ CommandDeclined
    \/ CommandPacman

NextCommand == CommandRun \/ ResolveRun \/ InstallRun

SpecCommand == InitCommand /\ [][NextCommand]_vars

----------------------------------------------------------------------------
(* search_aur and the RPC cache (_get_cached, _set_cached)                 *)
(*                                                                         *)
(* The cache file is a dict from keys to entries [timestamp, data].  Time  *)
(* is in seconds; it passes between any two steps.                         *)

\* The last value of time.time().
MaxClock == 180

\* The network requests of one run.
MaxRequests == 3

\* The seconds that pass at once.
TickSteps == {30, 60}

\* The values of performance.rpc_cache_ttl, in minutes.
TTLMinutes == {0, 1, 2}

Queries == {<<"a">>, <<"b">>}

\* The "results" of a search response.
ResultLists == {<<>>, <<"x">>, <<"y">>}

\* cache_key = f"search:{safe_query}"
SearchKey(query) == <<"search:", query>>

\* ttl_seconds = ttl_minutes * 60
TtlSeconds == rpc_cache_ttl * 60

\* del cache[key]
DictDel(d, k) == [x \in DOMAIN d \ {k} |-> d[x]]

\* CachedFresh with the age compared by <=.
CachedFreshInclusive(key) ==
    /\ key \in DOMAIN rpc_cache
    /\ clock - rpc_cache[key].timestamp <= TtlSeconds

\* _get_cached: the key is in the cache and its entry is younger than
\* ttl_seconds.
CachedFresh(key) ==
    /\ key \in DOMAIN rpc_cache
    /\ clock - rpc_cache[key].timestamp < TtlSeconds

InitSearch ==
    /\ InitNoSource
    /\ InitResolver
    /\ InitInstaller
    /\ InitUpgradeCommand
    /\ InitCalls
    /\ InitNoCommand
    /\ InitNoBuild
    /\ InitNoSpecifier
    /\ rpc_cache = EmptyDict
    /\ clock = 0
    /\ rpc_cache_ttl \in TTLMinutes
    /\ spc = "idle"
    /\ search_query = <<>>
    /\ search_result = <<>>
    /\ requests = <<>>
    /\ cache_at_call = EmptyDict
    /\ time_at_call = 0
    /\ requests_at_call = 0

\* time.time() grows.
Tick ==
    /\ \E d \in TickSteps :
        /\ clock + d <= MaxClock
        /\ clock' = clock + d
    /\ UNCHANGED <<src_vars, res_vars, ctl_vars, inst_vars, upg_vars,
                   again_vars, strip_vars, cmd_vars, priv_vars, rpc_cache,
                   rpc_cache_ttl, spc, search_query, search_result, requests,
                   cache_at_call, time_at_call, requests_at_call>>

\* search_aur(query) up to the request: _get_cached(cache_key) returns the
\* data of a fresh entry, which search_aur returns; it deletes an expired
\* entry and returns None.
SearchCall ==
    /\ spc \in {"idle", "hit", "fetched", "failed"}
    /\ Len(requests) < MaxRequests
    /\ \E query \in Queries :
        LET key == SearchKey(query)
        IN  /\ search_query' = query
            /\ IF CachedFresh(key)
               THEN /\ search_result' = rpc_cache[key].data
                    /\ spc' = "hit"
                    /\ rpc_cache' = rpc_cache
               ELSE /\ search_result' = search_result
                    /\ spc' = "request"
                    /\ rpc_cache' = IF key \in DOMAIN rpc_cache
                                    THEN DictDel(rpc_cache, key)
                                    ELSE rpc_cache
    /\ cache_at_call' = rpc_cache
    /\ time_at_call' = clock
    /\ requests_at_call' = Len(requests)
    /\ UNCHANGED <<src_vars, res_vars, ctl_vars, inst_vars, upg_vars,
                   again_vars, strip_vars, cmd_vars, priv_vars, clock,
                   rpc_cache_ttl, requests>>

\* search_aur: urlopen answers 200 with a search response: _set_cached
\* stores the results with time.time() and search_aur returns them.
SearchFetched ==
    /\ spc = "request"
    /\ requests' = Append(requests, search_query)
    /\ \E results \in ResultLists :
        /\ rpc_cache' = DictSet(rpc_cache, SearchKey(search_query),
                                [timestamp |-> clock, data |-> results])
        /\ search_result' = results
    /\ spc' = "fetched"
    /\ UNCHANGED <<src_vars, res_vars, ctl_vars, inst_vars, upg_vars,
                   again_vars, strip_vars, cmd_vars, priv_vars, clock,
                   rpc_cache_ttl, search_query, cache_at_call, time_at_call,
                   requests_at_call>>

\* search_aur: urlopen raises, or the status is not 200, or the response is
\* no search response: search_aur returns [] and stores nothing.
SearchFailed ==
    /\ spc = "request"
    /\ requests' = Append(requests, search_query)
    /\ search_result' = <<>>
    /\ spc' = "failed"
    /\ UNCHANGED <<src_vars, res_vars, ctl_vars, inst_vars, upg_vars,
                   again_vars, strip_vars, cmd_vars, priv_vars, rpc_cache,
                   clock, rpc_cache_ttl, search_query, cache_at_call,
                   time_at_call, requests_at_call>>

NextSearch == Tick \/ SearchCall \/ SearchFetched \/ SearchFailed

SpecSearch == InitSearch /\ [][NextSearch]_vars

----------------------------------------------------------------------------
(* AurInstaller._build_pkg: who runs makepkg                               *)
(*                                                                         *)
(* An argv is a sequence of arguments; the argument f"--user={real_user}"  *)
(* is the pair <<"--user=", real_user>> and the shell command line the     *)
(* sequence of its words.  An unset or absent value (None) is <<>>, a      *)
(* string s is <<s>>.                                                      *)

Uids == {0, 1000}

UserNames == {"", "root", "alice"}

\* os.environ.get("SUDO_USER")
SudoUsers == {<<>>} \cup {<<u>> : u \in UserNames}

\* config tools.build_user
BuildUsers == {"auto"} \cup UserNames

\* config tools.privilege_tool
PrivilegeTools == {"auto", "run0", "doas", "sudo", "su"}

\* real_user: SUDO_USER when build_user is "auto", else build_user.
RealUser == IF build_user = "auto" THEN sudo_user ELSE <<build_user>>

\* The truth value of real_user.
Truthy(u) == u # <<>> /\ u[1] # ""

\* cmd = ["makepkg", "-f", "--needed", "--noconfirm"], with -m without colour.
MakepkgCmd(no_color) ==
    <<"makepkg", "-f", "--needed", "--noconfirm">>
        \o (IF no_color THEN <<"-m">> ELSE <<>>)

\* tool: privilege_tool, "auto" being the first of run0, doas that is
\* installed, else sudo.
Tool ==
    IF privilege_tool = "auto"
    THEN IF "run0" \in which THEN "run0"
         ELSE IF "doas" \in which THEN "doas"
         ELSE "sudo"
    ELSE privilege_tool

\* The command wrapped to run as real_user.
Wrapped(cmd) ==
    LET shell_cmd == <<"cd", "pkg_dir", "&&">> \o cmd
    IN  IF Tool = "run0"
        THEN <<"run0", <<"--user=", RealUser[1]>>, "sh", "-c", shell_cmd>>
        ELSE IF Tool = "doas"
        THEN <<"doas", "-u", RealUser[1], "sh", "-c", shell_cmd>>
        ELSE <<"sudo", "-u", RealUser[1], "sh", "-c", shell_cmd>>

InitBuild ==
    /\ InitNoSource
    /\ InitResolver
    /\ InitInstaller
    /\ InitUpgradeCommand
    /\ InitCalls
    /\ InitNoCommand
    /\ InitNoSearch
    /\ InitNoSpecifier
    /\ uid \in Uids
    /\ sudo_user \in SudoUsers
    /\ build_user \in BuildUsers
    /\ privilege_tool \in PrivilegeTools
    /\ which \in SUBSET {"run0", "doas"}
    /\ bpc = "idle"
    /\ run_cmd = <<>>

\* _build_pkg: the source is downloaded, or sys.exit(1) when that fails.
BuildPkgDownload ==
    /\ bpc = "idle"
    /\ \E ok \in BOOLEAN :
        /\ cmds' = Append(cmds, Cmd("git", "base", ok))
        /\ bpc' = IF ok THEN "downloaded" ELSE "exited"
        /\ exit_status' = IF ok THEN exit_status ELSE 1
    /\ UNCHANGED <<src_vars, res_vars, call_vars, ipc, build_queue,
                   install_official_deps, queue_deps, build_i,
                   needed_by_future, built_files, final_batch_paths,
                   final_batch_names, upg_vars, again_vars, strip_vars,
                   cmd_vars, cache_vars, uid, sudo_user, build_user,
                   privilege_tool, which, run_cmd>>

\* _build_pkg: as root without a build user: "Cannot build as root without
\* SUDO_USER" and sys.exit(1).
BuildPkgNoUser ==
    /\ bpc = "downloaded"
    /\ uid = 0
    /\ ~Truthy(RealUser)
    /\ bpc' = "exited"
    /\ exit_status' = 1
    /\ UNCHANGED <<src_vars, res_vars, call_vars, inst_vars, upg_vars,
                   again_vars, strip_vars, cmd_vars, cache_vars, uid,
                   sudo_user, build_user, privilege_tool, which, run_cmd>>

\* _build_pkg: the build directory is given to real_user and the makepkg
\* command is made: wrapped as root, plain otherwise.
BuildPkgCommand ==
    /\ bpc = "downloaded"
    /\ uid = 0 => Truthy(RealUser)
    /\ cmds' = IF uid = 0 /\ Truthy(RealUser)
               THEN Append(cmds, Cmd("chown", RealUser[1], TRUE))
               ELSE cmds
    /\ \E no_color \in BOOLEAN :
        run_cmd' = IF uid = 0 THEN Wrapped(MakepkgCmd(no_color))
                   ELSE MakepkgCmd(no_color)
    /\ bpc' = "command"
    /\ UNCHANGED <<src_vars, res_vars, ctl_vars, ipc, build_queue,
                   install_official_deps, queue_deps, build_i,
                   needed_by_future, built_files, final_batch_paths,
                   final_batch_names, upg_vars, again_vars, strip_vars,
                   cmd_vars, cache_vars, uid, sudo_user, build_user,
                   privilege_tool, which>>

\* _build_pkg: subprocess.run(cmd, check=True); CalledProcessError:
\* sys.exit(1).
BuildPkgRun ==
    /\ bpc = "command"
    /\ \E ok \in BOOLEAN :
        /\ cmds' = Append(cmds, Cmd("subprocess.run", run_cmd, ok))
        /\ bpc' = IF ok THEN "built" ELSE "exited"
        /\ exit_status' = IF ok THEN exit_status ELSE 1
    /\ UNCHANGED <<src_vars, res_vars, call_vars, ipc, build_queue,
                   install_official_deps, queue_deps, build_i,
                   needed_by_future, built_files, final_batch_paths,
                   final_batch_names, upg_vars, again_vars, strip_vars,
                   cmd_vars, cache_vars, uid, sudo_user, build_user,
                   privilege_tool, which, run_cmd>>

NextBuild ==
    BuildPkgDownload \/ BuildPkgNoUser \/ BuildPkgCommand \/ BuildPkgRun

SpecBuild == InitBuild /\ [][NextBuild]_vars

----------------------------------------------------------------------------
(* The dependency graph the Metadata Source declares *)

Requested == Range(packages)

InAur(n) == aur_db[n] # <<>>

\* The version-stripped names in the three dependency lists of an info.
CleanDeps(pkg_info) == Range(CleanAll(AllDeps(pkg_info)))

\* The declared dependencies of the AUR package n.
DepsOf(n) == IF InAur(n) THEN CleanDeps(aur_db[n][1]) ELSE {}

\* The names reachable from the set S along declared dependencies.
RECURSIVE ReachAll(_)
ReachAll(S) ==
    LET T == S \cup UNION {DepsOf(n) : n \in S}
    IN  IF T = S THEN S ELSE ReachAll(T)

\* The declared graph has no cycle (a self-dependency is a cycle).
Acyclic == \A n \in PkgNames : n \notin ReachAll(DepsOf(n))

\* n must be built: not official, and not installed unless requested.
MustBuild(n) ==
    /\ n \notin official
    /\ n \notin installed \/ n \in Requested

\* The dependencies the traversal has to follow from n.
BuildDeps(n) == IF MustBuild(n) THEN DepsOf(n) ELSE {}

\* The names reachable from the set S through names that must be built.
RECURSIVE ReachBuild(_)
ReachBuild(S) ==
    LET T == S \cup UNION {BuildDeps(n) : n \in S}
    IN  IF T = S THEN S ELSE ReachBuild(T)

\* The must-build names reachable from the request through must-build names
\* contain a dependency cycle.
HasBuildCycle ==
    \E n \in ReachBuild(Requested) :
        MustBuild(n) /\ n \in ReachBuild(BuildDeps(n))

\* The names whose metadata was fetched.
Fetched == Range(rpc_calls)

\* Every AUR package is its own package base.
NoSplit == \A n \in PkgNames : InAur(n) => BaseOf(aur_db[n][1]) = n

\* The index of the queue entry that builds base b, 0 without one.
EntryOf(b) ==
    IF b \in QueueBases(queue)
    THEN CHOOSE k \in 1..Len(queue) : BaseOf(queue[k]) = b
    ELSE 0

----------------------------------------------------------------------------
(* C1: when resolve returns on a source without split packages, every      *)
(* queue entry comes after each queue entry that one of its Depends,       *)
(* MakeDepends or CheckDepends names.                                      *)
C1_QueueDependencySafe ==
    (pc = "returned" /\ NoSplit) =>
        \A i, j \in 1..Len(queue) :
            queue[j].Name \in CleanDeps(queue[i]) => j < i

\* A returned queue of three entries or more, one of them a dependency of a
\* later one, on a source without split packages.
C1_Witness ==
    /\ pc = "returned"
    /\ NoSplit
    /\ Len(queue) >= 3
    /\ \E i, j \in 1..Len(queue) :
          j < i /\ queue[j].Name \in CleanDeps(queue[i])

(* C2: when resolve returns, the entry of a package base comes after the   *)
(* entry of every dependency, of another base, of every binary name        *)
(* recorded for that base.                                                 *)
C2_BaseAfterItsDependencies ==
    pc = "returned" =>
        \A b \in DOMAIN package_bases :
            \A n \in package_bases[b] :
                \A d \in CleanDeps(aur_info_cache[n]) \cap DOMAIN aur_info_cache :
                    LET bd == BaseOf(aur_info_cache[d])
                    IN  (bd # b /\ EntryOf(bd) # 0) => EntryOf(bd) < EntryOf(b)

(* C3: on an acyclic declared graph resolve never raises                   *)
(* CyclicDependencyError, and when it returns, a built dependency that     *)
(* several built packages (of other bases) declare has exactly one queue   *)
(* entry, before the entry of each of them.                                *)
C3_NoFalseCycleSharedOnce ==
    Acyclic =>
        /\ pc # "raised"
        /\ pc = "returned" =>
            \A d \in DOMAIN aur_info_cache :
                LET bd == BaseOf(aur_info_cache[d])
                    dependents ==
                        {e \in DOMAIN aur_info_cache :
                            /\ d \in CleanDeps(aur_info_cache[e])
                            /\ BaseOf(aur_info_cache[e]) # bd}
                IN  Cardinality(dependents) >= 2 =>
                      /\ Cardinality({k \in 1..Len(queue) :
                                        BaseOf(queue[k]) = bd}) = 1
                      /\ \A e \in dependents :
                            EntryOf(bd) < EntryOf(BaseOf(aur_info_cache[e]))

(* C4: when the must-build names reachable from the request contain a      *)
(* dependency cycle, resolve never returns a queue.                        *)
C4_NoQueueOnCycle == HasBuildCycle => pc # "returned"

(* C5, as claimed: the cycle path of the raised error starts and ends with *)
(* the same name and every consecutive pair is a declared dependency.      *)
C5_CyclePathClosed ==
    pc = "raised" =>
        /\ cycle[1] = cycle[Len(cycle)]
        /\ \A k \in 1..(Len(cycle) - 1) : cycle[k + 1] \in DepsOf(cycle[k])

(* C5, amended: the cycle path is the DFS path from the requested package  *)
(* being resolved to the repeat: it starts with that requested package,    *)
(* its elements before the last are pairwise distinct, its last element is *)
(* one of them, and every consecutive pair is a declared dependency.       *)
C5_CyclePathFromRequest ==
    pc = "raised" =>
        LET n == Len(cycle)
        IN  /\ n >= 2
            /\ cycle[1] = packages[req_i - 1]
            /\ \A j, k \in 1..(n - 1) : cycle[j] = cycle[k] => j = k
            /\ \E k \in 1..(n - 1) : cycle[k] = cycle[n]
            /\ \A k \in 1..(n - 1) : cycle[k + 1] \in DepsOf(cycle[k])
            /\ (cycle[1] = cycle[n]) <=> (packages[req_i - 1] = cycle[n])

\* A cycle entered through a requested package that is not on it, R->A->B->A.
C5_Witness ==
    /\ pc = "raised"
    /\ Len(cycle) >= 4
    /\ cycle[1] # cycle[Len(cycle)]
    /\ cycle[2] = cycle[Len(cycle)]

(* C6: in every state the queue holds at most one entry per package base,  *)
(* every name whose metadata was fetched is recorded under its base in     *)
(* package_bases, and when resolve returns every recorded base (so the     *)
(* shared base of two requested binary names) has exactly one entry.       *)
C6_OneEntryPerBase ==
    /\ \A i, j \in 1..Len(queue) :
          BaseOf(queue[i]) = BaseOf(queue[j]) => i = j
    /\ \A n \in DOMAIN aur_info_cache :
          LET b == Get(aur_info_cache[n].PackageBase, n)
          IN  b \in DOMAIN package_bases /\ n \in package_bases[b]
    /\ \A n \in visiting \cup (visited \cap Fetched) :
          n \in DOMAIN aur_info_cache
    /\ pc = "returned" =>
          \A b \in DOMAIN package_bases :
              Cardinality({k \in 1..Len(queue) : BaseOf(queue[k]) = b}) = 1

\* Two requested binary names of one base, resolved into one entry.
C6_Witness ==
    /\ pc = "returned"
    /\ Len(packages) = 2
    /\ packages[1] # packages[2]
    /\ \E b \in DOMAIN package_bases : Requested \subseteq package_bases[b]
    /\ Len(queue) = 1

(* C7: a name the source reports installed that is never requested is      *)
(* never fetched, never a queue entry, never in official_deps, never       *)
(* recorded under a base and never visiting (no _visit iterates over its   *)
(* dependencies); once reached it is in visited.                           *)
C7_InstalledDependencySkipped ==
    \A n \in installed \ Requested :
        /\ n \notin Fetched
        /\ n \notin DOMAIN aur_info_cache
        /\ \A k \in 1..Len(queue) : queue[k].Name # n
        /\ n \notin official_deps
        /\ \A b \in DOMAIN package_bases : n \notin package_bases[b]
        /\ n \notin visiting
        /\ \A k \in 1..Len(stack) : stack[k].pkg_name # n
        /\ \A k \in 1..Len(stack) :
              \A j \in 1..(stack[k].i - 1) :
                  stack[k].clean_deps[j] = n => n \in visited

\* An installed dependency with dependencies of its own, was reached and
\* skipped, and resolve returned.
C7_Witness ==
    /\ pc = "returned"
    /\ \E n \in (installed \cap visited) \ Requested :
          /\ DepsOf(n) # {}
          /\ DepsOf(n) \cap visited = {}
    /\ queue # <<>>

(* C8: a name the source reports official is never fetched, never a queue  *)
(* entry, never recorded under a base and never visiting, requested or     *)
(* not; official_deps holds only official names, and holds every official  *)
(* name that was reached and is not installed.                             *)
C8_OfficialNeverBuilt ==
    /\ \A n \in official :
          /\ n \notin Fetched
          /\ n \notin DOMAIN aur_info_cache
          /\ \A k \in 1..Len(queue) : queue[k].Name # n
          /\ \A b \in DOMAIN package_bases : n \notin package_bases[b]
          /\ n \notin visiting
          /\ (n \in visited /\ n \notin installed) => n \in official_deps
    /\ official_deps \subseteq official \cap visited

\* A requested name that is official and also in the AUR with dependencies
\* went to official_deps, next to a built AUR package.
C8_Witness ==
    /\ pc = "returned"
    /\ \E n \in official_deps \cap Requested : DepsOf(n) # {}
    /\ queue # <<>>

(* C9: when resolve returns, every requested name that is not official has *)
(* had its metadata fetched and its package base is in the queue.          *)
C9_RequestedAlwaysVisited ==
    pc = "returned" =>
        \A n \in Requested \ official :
            /\ n \in Fetched
            /\ InAur(n)
            /\ BaseOf(aur_db[n][1]) \in QueueBases(queue)

(* C10: a fetch without result ends the process with status 1, and when    *)
(* resolve returns, no visited name is missing from the AUR unless it is   *)
(* official or was skipped as installed, and every dependency of a fetched *)
(* package is official, installed or built by a queue entry.               *)
C10_MissingIsFatal ==
    /\ \A n \in Fetched : ~InAur(n) => (pc = "exited" /\ exit_status = 1)
    /\ pc = "exited" <=> exit_status = 1
    /\ pc = "returned" =>
          /\ \A n \in visited :
                ~InAur(n) => (n \in official_deps \/ n \in installed \ Fetched)
          /\ \A n \in DOMAIN aur_info_cache :
                \A d \in CleanDeps(aur_info_cache[n]) :
                    /\ d \in visited
                    /\ \/ d \in official_deps
                       \/ d \in installed \ Fetched
                       \/ /\ d \in DOMAIN aur_info_cache
                          /\ BaseOf(aur_info_cache[d]) \in QueueBases(queue)

\* A missing dependency was reached after another package was already
\* queued, and the process exited.
C10_Witness ==
    /\ pc = "exited"
    /\ exit_status = 1
    /\ queue # <<>>
    /\ Len(rpc_calls) >= 3
    /\ ~InAur(rpc_calls[Len(rpc_calls)])

----------------------------------------------------------------------------
\* The constraint characters.
ConstraintChars == {">", "<", "="}

\* The index of the first constraint character of s, Len(s) + 1 without one.
FirstConstraint(s) ==
    LET at == {k \in 1..Len(s) : s[k] \in ConstraintChars}
    IN  IF at = {} THEN Len(s) + 1
        ELSE CHOOSE k \in at : \A j \in at : k <= j

\* s without its leading and trailing whitespace.
Trimmed(s) ==
    LET at == {k \in 1..Len(s) : s[k] \notin Whitespace}
    IN  IF at = {} THEN <<>>
        ELSE SubSeq(s, CHOOSE k \in at : \A j \in at : k <= j,
                       CHOOSE k \in at : \A j \in at : k >= j)

(* C11: the name _visit computes for a dependency specifier is the part of *)
(* the specifier before its first '>', '<' or '=', without leading and     *)
(* trailing whitespace, and install() computes the same name for it.       *)
C11_StrippedName ==
    /\ "resolver" \in strip_done =>
          strip_visit = Trimmed(SubSeq(strip_in, 1, FirstConstraint(strip_in) - 1))
    /\ "installer" \in strip_done =>
          strip_queue = Trimmed(SubSeq(strip_in, 1, FirstConstraint(strip_in) - 1))
    /\ strip_done = {"resolver", "installer"} => strip_visit = strip_queue

\* A specifier with whitespace around the name and a '<' constraint, cleaned
\* by both to the bare name.
C11_Witness ==
    /\ strip_done = {"resolver", "installer"}
    /\ strip_in = <<" ", "f", "\t", "<">>
    /\ strip_visit = <<"f">>
    /\ strip_queue = <<"f">>

----------------------------------------------------------------------------
(* What install() has done with the entries of its build queue *)

\* The built files of entry i were handed to pacman -U --asdeps.
InstalledNow(i) ==
    \E k \in 1..Len(cmds) :
        /\ cmds[k].cmd = "pacman -U --asdeps"
        /\ cmds[k].args = <<PkgFile(build_queue[i])>>

\* Entry i is in the final batch.
Deferred(i) == build_queue[i].Name \in Range(final_batch_names)

\* A later entry declares the name of entry i in its Depends, MakeDepends
\* or CheckDepends, version constraints stripped.
DeclaredLater(i) ==
    \E j \in (i + 1)..Len(build_queue) :
        build_queue[i].Name \in CleanDeps(build_queue[j])

\* The indexes of the makepkg runs in cmds.
Builds == {k \in 1..Len(cmds) : cmds[k].cmd = "makepkg"}

\* The indexes of the pacman -U runs that are not --asdeps.
FinalInstalls == {k \in 1..Len(cmds) : cmds[k].cmd = "pacman -U"}

(* C12: an entry that install() is done with was installed at once if and  *)
(* only if a later entry declares its name (version constraints stripped), *)
(* and was put in the final batch if and only if none does; the decision   *)
(* for the entry just built is the same; an entry not yet built is in      *)
(* neither class.                                                          *)
C12_PartitionCorrect ==
    ipc \in {"build", "built", "done", "exited"} /\ queue_deps # EmptyDict =>
        /\ \A i \in 1..(build_i - 1) :
              /\ InstalledNow(i) <=> DeclaredLater(i)
              /\ Deferred(i) <=> ~DeclaredLater(i)
        /\ ipc = "built" => (needed_by_future <=> DeclaredLater(build_i))
        /\ \A i \in build_i..Len(build_queue) :
              /\ ~Deferred(i)
              /\ InstalledNow(i) => (i = build_i /\ DeclaredLater(i))

\* install() returned after a queue of three entries: the first installed
\* at once for the second, the second and the third deferred.
C12_Witness ==
    /\ ipc = "done"
    /\ Len(build_queue) = 3
    /\ InstalledNow(1)
    /\ build_queue[1].Name \in CleanDeps(build_queue[2])
    /\ Deferred(2)
    /\ Deferred(3)

\* The last external command that was run.
LastCmd == cmds[Len(cmds)]

\* The process has exited with status 1 inside the build of entry build_i.
BuildFailed ==
    /\ ipc = "exited"
    /\ exit_status = 1
    /\ cmds # <<>>
    /\ LastCmd.cmd \in {"git", "makepkg"}

(* C13: a failed download and a failed makepkg are the last command the    *)
(* process runs, and a makepkg that leaves no package file ends the        *)
(* process with status 1; when the process has ended inside the build of   *)
(* entry k, no later entry was downloaded, built or installed, entry k was *)
(* not installed, and no final pacman -U was run.                          *)
C13_BuildFailureAborts ==
    /\ \A k \in 1..Len(cmds) :
          (cmds[k].cmd \in {"git", "makepkg"} /\ ~cmds[k].ok) =>
              (k = Len(cmds) /\ ipc = "exited" /\ exit_status = 1)
    /\ (cmds # <<>> /\ LastCmd.cmd = "makepkg" /\ LastCmd.ok
            /\ built_files = <<>>) =>
          (ipc = "exited" /\ exit_status = 1)
    /\ BuildFailed =>
          /\ FinalInstalls = {}
          /\ \A i \in build_i..Len(build_queue) :
                ~InstalledNow(i) /\ ~Deferred(i)
          /\ \A i \in (build_i + 1)..Len(build_queue) :
                \A k \in 1..Len(cmds) :
                    /\ cmds[k].cmd = "makepkg" =>
                          cmds[k].args # build_queue[i].Name
                    /\ cmds[k].cmd = "git" =>
                          cmds[k].args # BaseOf(build_queue[i])
          /\ Cardinality({k \in 1..Len(cmds) : cmds[k].cmd = "git"}) = build_i

\* The build of the second of three entries failed after the first was
\* built and installed at once.
C13_Witness ==
    /\ BuildFailed
    /\ Len(build_queue) = 3
    /\ build_i = 2
    /\ InstalledNow(1)

ChangingCmds ==
    {"pacman -Su", "pacman -S --needed --asdeps", "git", "makepkg",
     "pacman -U --asdeps", "pacman -U"}

(* C15: once resolving the AUR update candidates has raised                *)
(* CyclicDependencyError in the upgrade command, no pacman -Su, no build   *)
(* and no install is run.                                                  *)
C15_CycleAbortsUpgrade ==
    (pc = "raised" /\ upc # "idle") =>
        \A k \in 1..Len(cmds) : cmds[k].cmd \notin ChangingCmds

\* The names the resolver holds in its queue and its sets.
HeldNames ==
    {queue[k].Name : k \in 1..Len(queue)} \cup official_deps \cup visited
        \cup visiting

(* C16: when a second resolve() call on the same resolver returns, every   *)
(* name in its queue, official_deps, visited and visiting is reachable     *)
(* from the names of that call along declared dependencies.                *)
C16_SecondCallFresh ==
    (call_kind = "again" /\ pc = "returned") =>
        HeldNames \subseteq ReachAll(Requested)

\* The second call has ended.
SecondCallEnded ==
    /\ call_kind \in {"again", "fresh"}
    /\ pc \in {"returned", "raised", "exited"}

(* C17: a second resolve() call with the same list, on the same resolver   *)
(* or on a new one, ends the way the first call ended, and when it returns *)
(* its queue (entry for entry) and its official_deps are those of the      *)
(* first call.                                                             *)
C17_SameResultTwice ==
    (SecondCallEnded /\ packages = prev_packages) =>
        /\ pc = prev_pc
        /\ pc = "returned" =>
              /\ queue = prev_queue
              /\ official_deps = prev_official_deps

\* The second call on the same resolver returned a queue of two entries or
\* more and an official dependency, for a request of two names.
C17_Witness ==
    /\ call_kind = "again"
    /\ pc = "returned"
    /\ packages = prev_packages
    /\ Len(packages) >= 2
    /\ Len(queue) >= 2
    /\ official_deps # {}

----------------------------------------------------------------------------
(* The depth-first post-order of the declared graph *)

\* The dependency names of the AUR package n in declaration order: Depends,
\* then MakeDepends, then CheckDepends, version constraints stripped.
DeclaredDeps(n) ==
    LET p == aur_db[n][1]
        all == p.Depends \o p.MakeDepends \o p.CheckDepends
    IN  [k \in 1..Len(all) |->
            Trimmed(SubSeq(all[k], 1, FirstConstraint(all[k]) - 1))]

\* The names in the order they complete, when the items of work are taken
\* from the front: an item is a name to visit (requested or not) or a name
\* whose dependencies are all visited.  A name already met, an installed
\* name that was not requested and an official name are not followed.
RECURSIVE PostOrder(_, _, _)
PostOrder(work, met, order) ==
    IF work = <<>> THEN order
    ELSE LET it == Head(work)
             n == it.name
         IN  IF it.step = "finish"
             THEN PostOrder(Tail(work), met, Append(order, n))
             ELSE IF n \in met
             THEN PostOrder(Tail(work), met, order)
             ELSE IF (~it.requested /\ n \in installed) \/ n \in official
                     \/ ~InAur(n)
             THEN PostOrder(Tail(work), met \cup {n}, order)
             ELSE PostOrder(
                    [k \in 1..Len(DeclaredDeps(n)) |->
                        [step |-> "visit", name |-> DeclaredDeps(n)[k],
                         requested |-> FALSE]]
                      \o <<[step |-> "finish", name |-> n,
                            requested |-> FALSE]>>
                      \o Tail(work),
                    met \cup {n}, order)

\* The post-order of the traversal from the requested names, in order.
RequestPostOrder ==
    PostOrder([k \in 1..Len(packages) |->
                  [step |-> "visit", name |-> packages[k],
                   requested |-> TRUE]], {}, <<>>)

\* The bases of the names of s, each base at its first occurrence only.
RECURSIVE FirstBases(_, _)
FirstBases(s, seen) ==
    IF s = <<>> THEN <<>>
    ELSE LET b == BaseOf(aur_db[Head(s)][1])
         IN  IF b \in seen THEN FirstBases(Tail(s), seen)
             ELSE <<b>> \o FirstBases(Tail(s), seen \cup {b})

(* C18: when resolve returns, the package bases of the queue entries, in   *)
(* queue order, are the bases of the names in the depth-first post-order   *)
(* of the traversal from the requested names in the given order, with the  *)
(* dependencies of each package in the order Depends, MakeDepends,         *)
(* CheckDepends, each base at its first completion; without split packages *)
(* the names of the queue entries are that post-order.                     *)
C18_DeclarationOrder ==
    pc = "returned" =>
        /\ [k \in 1..Len(queue) |-> BaseOf(queue[k])]
              = FirstBases(RequestPostOrder, {})
        /\ NoSplit =>
              [k \in 1..Len(queue) |-> queue[k].Name] = RequestPostOrder

\* leaf with Depends [mid] and MakeDepends [make-dep]: the queue is mid,
\* make-dep, leaf.
C18_Witness ==
    /\ pc = "returned"
    /\ Len(queue) = 3
    /\ queue[3].Depends = <<queue[1].Name>>
    /\ queue[3].MakeDepends = <<queue[2].Name>>
    /\ queue[1].Name # queue[2].Name

----------------------------------------------------------------------------
\* The index of the queue entry named n.
EntryNamed(n) == CHOOSE i \in 1..Len(build_queue) : build_queue[i].Name = n

\* The indexes of the pacman -U --asdeps runs in cmds.
DepInstalls == {k \in 1..Len(cmds) : cmds[k].cmd = "pacman -U --asdeps"}

(* C19: after the successful makepkg of an entry that a later entry        *)
(* declares, the next command the process runs is pacman -U --asdeps of    *)
(* that entry's built files, so it comes before the download and build of  *)
(* every later entry; the entry is never put in the final batch; and a     *)
(* failed pacman -U --asdeps is the last command of the process, which     *)
(* exits with status 1.                                                    *)
C19_ImmediateInstall ==
    /\ \A m \in Builds :
          LET i == EntryNamed(cmds[m].args)
          IN  (cmds[m].ok /\ DeclaredLater(i)) =>
                /\ ~Deferred(i)
                /\ IF m < Len(cmds)
                   THEN /\ cmds[m + 1].cmd = "pacman -U --asdeps"
                        /\ cmds[m + 1].args = <<PkgFile(build_queue[i])>>
                   ELSE \/ ipc = "built" /\ needed_by_future /\ build_i = i
                        \/ ipc = "exited" /\ exit_status = 1
                              /\ built_files = <<>>
    /\ \A k \in DepInstalls :
          /\ k > 1
          /\ cmds[k - 1].cmd = "makepkg"
          /\ cmds[k - 1].ok
          /\ <<PkgFile(build_queue[EntryNamed(cmds[k - 1].args)])>>
                = cmds[k].args
          /\ ~cmds[k].ok =>
                (k = Len(cmds) /\ ipc = "exited" /\ exit_status = 1)

\* Of three entries the first was built and installed at once, the second
\* was built and its pacman -U --asdeps failed; the third was never built.
C19_Witness ==
    /\ ipc = "exited"
    /\ exit_status = 1
    /\ Len(build_queue) = 3
    /\ build_i = 2
    /\ Cardinality(DepInstalls) = 2
    /\ Cardinality(Builds) = 2
    /\ ~LastCmd.ok
    /\ LastCmd.cmd = "pacman -U --asdeps"

----------------------------------------------------------------------------
\* The built files of the entries from i on that no later entry declares,
\* in queue order.
RECURSIVE DeferredFiles(_)
DeferredFiles(i) ==
    IF i > Len(build_queue) THEN <<>>
    ELSE (IF DeclaredLater(i) THEN <<>> ELSE <<PkgFile(build_queue[i])>>)
            \o DeferredFiles(i + 1)

(* C20: the process runs at most one pacman -U that is not --asdeps; it    *)
(* runs it after a successful makepkg of every queue entry, as its last    *)
(* command, with the built files of exactly the entries that no later      *)
(* entry declares, in queue order; and when install() returns after        *)
(* building a queue, it has run it.                                        *)
C20_FinalBatchAfterBuilds ==
    /\ Cardinality(FinalInstalls) <= 1
    /\ \A f \in FinalInstalls :
          /\ f = Len(cmds)
          /\ \A i \in 1..Len(build_queue) :
                \E m \in Builds :
                    /\ m < f
                    /\ cmds[m].ok
                    /\ cmds[m].args = build_queue[i].Name
          /\ cmds[f].args = DeferredFiles(1)
          /\ cmds[f].args = final_batch_paths
    /\ (ipc = "done" /\ build_queue # <<>>) =>
          /\ Cardinality(FinalInstalls) = 1
          /\ LastCmd.ok

\* install() returned after three builds: the second entry was installed
\* at once, the first and the third together at the end.
C20_Witness ==
    /\ ipc = "done"
    /\ Len(build_queue) = 3
    /\ InstalledNow(2)
    /\ LastCmd.cmd = "pacman -U"
    /\ LastCmd.args = <<PkgFile(build_queue[1]), PkgFile(build_queue[3])>>

----------------------------------------------------------------------------
(* C21: after resolve() has aborted, with CyclicDependencyError or with    *)
(* the exit for a package that was not found, no name remains in visiting. *)
C21_VisitingUnwound ==
    pc \in {"raised", "exited"} => visiting = {}

----------------------------------------------------------------------------
(* C22 *)

\* The arguments that are not flags.
ArgNames == {extra_args[k] : k \in {j \in 1..Len(extra_args) :
                                        ~IsFlag(extra_args[j])}}

\* A requested name that is neither official nor found in the AUR.
UnknownArg == \E n \in ArgNames : ~is_in_official_repos(n) /\ ArgAurInfo(n) = <<>>

LocalFileArg == \E n \in Range(extra_args) : is_valid_package(n)

\* The install command is over: it returned or the process has exited.
CommandEnded == cpc \in {"done", "exited"} \/ exit_status # -1

\* No install action so far: no pacman command, no AurInstaller.
NothingInstalled == cmds = <<>> /\ ipc = "idle"

----------------------------------------------------------------------------
(* C23 *)

\* The cache held, when the current call began, an entry for its query
\* whose age was strictly less than the TTL in seconds.
FreshAtCall ==
    LET key == SearchKey(search_query)
    IN  /\ key \in DOMAIN cache_at_call
        /\ time_at_call - cache_at_call[key].timestamp < rpc_cache_ttl * 60

\* The current call has sent a request to the AUR.
RequestMade == Len(requests) > requests_at_call

SearchReturned == spc \in {"hit", "fetched", "failed"}

(* C23: search_aur makes a network request iff the cache holds no entry    *)
(* for the query younger than the TTL; a successful response is stored     *)
(* with the time of the response, a call within the TTL makes no request   *)
(* and returns the stored results, and a call after the TTL makes a new    *)
(* request, the expired entry being removed.                                *)
C23_CacheTTL ==
    LET key == SearchKey(search_query)
    IN  /\ SearchReturned => (RequestMade <=> ~FreshAtCall)
        /\ spc = "request" => ~FreshAtCall
        /\ RequestMade =>
              /\ Len(requests) = requests_at_call + 1
              /\ requests[Len(requests)] = search_query
        /\ spc = "hit" =>
              /\ search_result = cache_at_call[key].data
              /\ rpc_cache = cache_at_call
        /\ spc = "fetched" =>
              /\ key \in DOMAIN rpc_cache
              /\ rpc_cache[key].data = search_result
              /\ rpc_cache[key].timestamp >= time_at_call
              /\ rpc_cache[key].timestamp <= clock
        /\ spc \in {"request", "failed"} => key \notin DOMAIN rpc_cache

\* A call has found an entry whose age is exactly the TTL and has fetched
\* other results than the stored ones.
C23_Witness ==
    LET key == SearchKey(search_query)
    IN  /\ spc = "fetched"
        /\ key \in DOMAIN cache_at_call
        /\ rpc_cache_ttl > 0
        /\ time_at_call - cache_at_call[key].timestamp = rpc_cache_ttl * 60
        /\ search_result # cache_at_call[key].data

----------------------------------------------------------------------------
(* C24 *)

\* The makepkg commands that were run.
MakepkgRuns ==
    {cmds[k].args : k \in {j \in 1..Len(cmds) : cmds[j].cmd = "subprocess.run"}}

\* The user the argv runs makepkg as: the one run0, doas or sudo is told,
\* the invoking user ("root" for uid 0) for a plain makepkg.
RunsAs(argv) ==
    IF argv[1] = "run0" THEN argv[2][2]
    ELSE IF argv[1] \in {"doas", "sudo"} THEN argv[3]
    ELSE IF uid = 0 THEN "root" ELSE "invoking user"

(* C24: makepkg is never executed with root privileges: as uid 0 with a    *)
(* build user it is wrapped with run0, doas or sudo to run as that user,   *)
(* as uid 0 without one _build_pkg exits and makepkg is not run.           *)
C24_MakepkgNeverRoot ==
    /\ \A argv \in MakepkgRuns :
        /\ RunsAs(argv) # "root"
        /\ (uid = 0) => /\ argv[1] \in {"run0", "doas", "sudo"}
                        /\ RunsAs(argv) = RealUser[1]
    /\ (uid = 0 /\ ~Truthy(RealUser)) =>
            /\ MakepkgRuns = {}
            /\ bpc \in {"idle", "downloaded", "exited"}
            /\ bpc = "exited" => exit_status = 1

----------------------------------------------------------------------------
(* C25 *)

\* The positions of the commands named name in cmds.
CmdIdx(name) == {k \in 1..Len(cmds) : cmds[k].cmd = name}

\* The positions of the commands AurInstaller.install runs.
AurInstallIdx ==
    {k \in 1..Len(cmds) :
        cmds[k].cmd \in {"pacman -S --needed --asdeps", "git", "makepkg",
                         "pacman -U --asdeps", "pacman -U"}}

(* C25: the upgrade command syncs the databases first, then checks and     *)
(* resolves the AUR updates, then shows the summary, then runs the         *)
(* official upgrade as one pacman -Su without another sync, then runs      *)
(* AurInstaller.install with the queue resolved before the summary; the    *)
(* steps that --aur or --official leave out are skipped.  No command of    *)
(* the AUR install comes before the successful pacman -Su, and a failed    *)
(* pacman -Su ends the process with 1 before any AUR build.                *)
C25_UpgradeOrder ==
    /\ CmdIdx("pacman -Sy") \subseteq {1}
    /\ (run_official /\ upc # "idle") => CmdIdx("pacman -Sy") = {1}
    /\ CmdIdx("pacman -Syu") = {}
    /\ Cardinality(CmdIdx("pacman -Su")) <= 1
    /\ upc \in {"idle", "check"} => pc = "idle"
    /\ upc \in {"idle", "check", "resolving", "summary"} =>
            /\ CmdIdx("pacman -Su") = {}
            /\ ipc = "idle"
            /\ AurInstallIdx = {}
    /\ upc \in {"summary", "official", "aur", "installing", "files", "done"} =>
            IF run_aur THEN pc \in {"returned", "raised"} ELSE pc = "idle"
    /\ upc = "official" => ipc = "idle" /\ AurInstallIdx = {}
    /\ ipc # "idle" =>
            /\ run_aur
            /\ pc = "returned"
            /\ build_queue = queue
            /\ install_official_deps = official_deps
            /\ run_official =>
                  \E j \in CmdIdx("pacman -Su") : cmds[j].ok
    /\ \A k \in AurInstallIdx :
            run_official =>
                  \E j \in CmdIdx("pacman -Su") : j < k /\ cmds[j].ok
    /\ \A j \in CmdIdx("pacman -Su") :
            ~cmds[j].ok => /\ j = Len(cmds)
                           /\ exit_status = 1
                           /\ ipc = "idle"

\* A full upgrade has built an AUR package after the official upgrade.
C25_Witness ==
    /\ upc = "done"
    /\ run_official
    /\ run_aur
    /\ CmdIdx("makepkg") # {}
    /\ CmdIdx("pacman -Fy") # {}

----------------------------------------------------------------------------
(* C26 *)

\* Queue entry j declares a binary name recorded under the base of entry i.
DeclaresBinaryOf(j, i) ==
    CleanDeps(build_queue[j]) \cap package_bases[BaseOf(build_queue[i])] # {}

\* The positions of the successful pacman -U runs (immediate or final) of
\* the built files of entry i.
InstallsOf(i) ==
    {k \in 1..Len(cmds) :
        /\ cmds[k].cmd \in {"pacman -U --asdeps", "pacman -U"}
        /\ cmds[k].ok
        /\ PkgFile(build_queue[i]) \in Range(cmds[k].args)}

\* The positions of the source downloads that start the build of entry j.
BuildStarts(j) ==
    {k \in 1..Len(cmds) :
        cmds[k].cmd = "git" /\ cmds[k].args = BaseOf(build_queue[j])}

(* C26: for queue entries E_i, E_j with i < j such that E_j declares       *)
(* (version constraints stripped) a binary name recorded under E_i's       *)
(* package base, E_i is installed before the build of E_j starts, also     *)
(* when the declared name is not the Name of E_i's representative.         *)
C26_DependencyOnDisk ==
    ipc \in {"build", "built", "done", "exited"} =>
        \A i, j \in 1..Len(build_queue) :
            (i < j /\ DeclaresBinaryOf(j, i)) =>
                \A k \in BuildStarts(j) : \E m \in InstallsOf(i) : m < k

----------------------------------------------------------------------------
(* C27 *)

\* The positions of the pacman -S --needed --asdeps runs in cmds.
OfficialInstalls == CmdIdx("pacman -S --needed --asdeps")

\* The positions of the source downloads, builds and package installs.
AurBuildIdx ==
    {k \in 1..Len(cmds) :
        cmds[k].cmd \in {"git", "makepkg", "pacman -U --asdeps", "pacman -U"}}

(* C27: with official dependencies and a non-empty build queue, install()  *)
(* runs one pacman -S --needed --asdeps over all official_deps before the  *)
(* first source download or makepkg; when it fails the process exits with  *)
(* status 1 and no AUR package is built or installed.                      *)
C27_OfficialDepsFirst ==
    /\ Cardinality(OfficialInstalls) <= 1
    /\ \A k \in OfficialInstalls :
            /\ \A m \in AurBuildIdx : k < m
            /\ cmds[k].args = official_deps
            /\ official_deps # {}
            /\ ~cmds[k].ok => /\ k = Len(cmds)
                              /\ AurBuildIdx = {}
                              /\ ipc = "exited"
                              /\ exit_status = 1
    /\ (official_deps # {} /\ build_queue # <<>>
          /\ (AurBuildIdx # {} \/ ipc \in {"build", "built", "done"})) =>
            \E k \in OfficialInstalls : cmds[k].ok

\* A package was built after its official dependencies were installed.
C27_Witness ==
    /\ OfficialInstalls # {}
    /\ Builds # {}
    /\ ipc = "done"

----------------------------------------------------------------------------
(* C28 *)

\* The names of the _visit calls on the DFS stack.
StackNames == {stack[k].pkg_name : k \in 1..Len(stack)}

\* No error so far: resolve() is not called yet, is running or has returned.
NoError == pc \in {"idle", "resolving", "returned"}

\* The state part of the three-colour invariant.
ThreeColour ==
    NoError =>
        /\ visiting = StackNames
        /\ \A j, k \in 1..Len(stack) :
              stack[j].pkg_name = stack[k].pkg_name => j = k
        /\ visiting \cap visited = {}
        /\ \A k \in 1..Len(queue) :
              /\ BaseOf(queue[k]) \in DOMAIN package_bases
              /\ queue[k].Name \in package_bases[BaseOf(queue[k])]
        /\ pc = "returned" => visiting = {}

(* C28: before any error, visiting is exactly the set of names of the      *)
(* _visit calls on the DFS stack (each once), visiting and visited are     *)
(* disjoint, every queue entry's Name is recorded in package_bases under   *)
(* its base, visiting is empty when resolve has returned, and no step      *)
(* takes a name out of visited.                                            *)
C28_ThreeColour ==
    /\ []ThreeColour
    /\ [][visited \subseteq visited']_vars

\* resolve has returned a queue of two entries, one visited below the other.
C28_Witness ==
    /\ pc = "returned"
    /\ Len(queue) >= 2
    /\ Cardinality(visited) >= 2
    /\ \E k \in 1..Len(queue) : CleanDeps(queue[k]) \cap visited # {}

----------------------------------------------------------------------------
(* C29 *)

\* resolve() is one sequential call: whenever it has a next step it takes
\* it.
SpecFair == Init /\ [][Next]_vars /\ WF_vars(Next)

\* resolve() is over: it returned, raised CyclicDependencyError or the
\* process exited for a missing package.
ResolveEnded == pc \in {"returned", "raised", "exited"}

\* No name was fetched twice.
FetchedOnce ==
    \A j, k \in 1..Len(rpc_calls) : rpc_calls[j] = rpc_calls[k] => j = k

\* A name this step adds to visiting was neither visited nor fetched
\* before: it was never in visiting.
AddedOnce == (visiting' \ visiting) \cap (visited \cup Range(rpc_calls)) = {}

(* C29: resolve(requested) eventually returns, raises                      *)
(* CyclicDependencyError or aborts with a missing-package error, whatever  *)
(* the dependency relation; no name is added to visiting twice and no      *)
(* name's metadata is fetched twice in the run.                            *)
C29_ResolveTerminates ==
    /\ <>ResolveEnded
    /\ []FetchedOnce
    /\ [][AddedOnce]_vars

\* resolve has ended with an error on a cycle after fetching three names.
C29_Witness ==
    /\ pc = "raised"
    /\ Len(rpc_calls) >= 3

----------------------------------------------------------------------------
(* C30 *)

\* The queue entries whose Name was requested.
RequestedEntries ==
    {i \in 1..Len(build_queue) : build_queue[i].Name \in Requested}

\* The built files of entry i were installed by the final pacman -U.
InFinalInstall(i) ==
    \E k \in FinalInstalls :
        cmds[k].ok /\ PkgFile(build_queue[i]) \in Range(cmds[k].args)

\* The built files of entry i were installed with --asdeps.
InstalledAsDep(i) ==
    \E k \in DepInstalls : PkgFile(build_queue[i]) \in Range(cmds[k].args)

(* C30, as stated: after a successful install() every queue entry whose    *)
(* Name was requested has been installed in the final batch, without       *)
(* --asdeps, also when a later entry declares it.                          *)
C30_RequestedNeverAsDep ==
    ipc = "done" =>
        \A i \in RequestedEntries : InFinalInstall(i) /\ ~InstalledAsDep(i)

(* C30, amended: after a successful install() every queue entry whose Name *)
(* was requested has been installed in the final batch, without --asdeps,  *)
(* unless a later queue entry declares its Name: then it was installed at  *)
(* once with --asdeps, as any entry a later one needs.                     *)
C30_RequestedInFinalUnlessNeeded ==
    ipc = "done" =>
        \A i \in RequestedEntries :
            IF DeclaredLater(i)
            THEN InstalledAsDep(i) /\ ~InFinalInstall(i)
            ELSE InFinalInstall(i) /\ ~InstalledAsDep(i)

\* Two requested packages were installed, the one the other declares with
\* --asdeps.
C30_Witness ==
    /\ ipc = "done"
    /\ \E i, j \in RequestedEntries :
          /\ i < j
          /\ build_queue[i].Name \in CleanDeps(build_queue[j])
          /\ InstalledAsDep(i)
          /\ InFinalInstall(j)

====
